---- MODULE Spec2Model ----
(***************************************************************************)
(* Conversational strategy agent: the interactive turn of agent.py, the    *)
(* step/lifeline loop of core/loop.py (AgentLoop.run) and the heuristics   *)
(* of modules/guardrail.py.                                                *)
(*                                                                         *)
(* Text is modelled as a sequence of lexemes.  A lexeme is either a run of *)
(* whitespace ("sp"), an ordinary word ("w"), or one of the substrings the *)
(* code searches for (a marker of the loop protocol, a pattern of one of   *)
(* the guardrail heuristics, a replacement the guardrail writes).  The     *)
(* string operations of the code (strip, startswith, in, split, re.sub,    *)
(* concatenation) are computed on these sequences.                         *)
(***************************************************************************)
EXTENDS Integers, Sequences, FiniteSets, TLC

(***************************************************************************)
(* Bounds of the model.                                                    *)
(***************************************************************************)
\* LoopSpec: one run of AgentLoop.run under every strategy up to these
MaxStepsBound == 3
MaxLifelinesBound == 1
\* Spec: whole user turns under every strategy up to these
TurnStepsBound == 2
TurnLifelinesBound == 0
MaxTurns == 1

(***************************************************************************)
(* Lexemes of the loop's marker protocol.                                  *)
(***************************************************************************)
FA == "FINAL_ANSWER:"
FPR == "FURTHER_PROCESSING_REQUIRED:"
ERR == "[sandbox error:"
LTP == "Your last tool produced this result:"
OUT == "Original user task:"
CRIT == "CRITICAL:"
sp == " "
nl == "\n\n"
w == "w"

NoneText == <<"#None">>
NotStr == <<"#NotStr">>

(***************************************************************************)
(* String operations.                                                      *)
(***************************************************************************)
IsSpace(tok) == tok \in {sp, nl}

RECURSIVE lstrip(_)
lstrip(t) == IF t # <<>> /\ IsSpace(Head(t)) THEN lstrip(Tail(t)) ELSE t

RECURSIVE rstrip(_)
rstrip(t) ==
    IF t # <<>> /\ IsSpace(t[Len(t)])
    THEN rstrip(SubSeq(t, 1, Len(t) - 1))
    ELSE t

strip(t) == rstrip(lstrip(t))

startswith(t, tok) == t # <<>> /\ Head(t) = tok

Contains(t, tok) == \E i \in 1..Len(t) : t[i] = tok

\* index of the first occurrence of tok in t at or after position from; 0 if none
FindFrom(t, tok, from) ==
    IF \E i \in from..Len(t) : t[i] = tok
    THEN CHOOSE i \in from..Len(t) :
             t[i] = tok /\ \A j \in from..(i - 1) : t[j] # tok
    ELSE 0

\* t.split(tok)[1]: the text between the first and the second occurrence of tok
SplitSecond(t, tok) ==
    LET a == FindFrom(t, tok, 1)
        b == FindFrom(t, tok, a + 1)
    IN  IF b = 0 THEN SubSeq(t, a + 1, Len(t)) ELSE SubSeq(t, a + 1, b - 1)

\* str(x) as used by an f-string
Str(t) == IF t = NotStr THEN <<w>> ELSE t

\* re.sub of one pattern: every occurrence of the lexeme is replaced
Replace(t, tok, rep) == [i \in 1..Len(t) |-> IF t[i] = tok THEN rep ELSE t[i]]

(***************************************************************************)
(* modules/guardrail.py.  One lexeme stands for a match of each pattern.   *)
(***************************************************************************)
BAN == "hack"
PROF == "damn"
SSN == "123-45-6789"
CARD == "1234-5678-9012-3456"
EMAIL == "john@x.com"
PHONE == "555-123-4567"
SQL == "SELECT"
CMD == "&&"
AMP == "& Co"
BADURL == "http://malware.com/x"
GOODURL == "http://ok.org/x"
PATH == "/etc/passwd"
ENC == "%41%42%43%44%45%46"
SCRIPT == "javascript:"
BIG == "aaa...a"

REDACTED == "[REDACTED]"
SSN_RED == "[SSN REDACTED]"
CARD_RED == "[CARD REDACTED]"
EMAIL_RED == "[EMAIL: x.com]"
PHONE_RED == "[PHONE REDACTED]"
SQL_REM == "[SQL PATTERN REMOVED]"
CMD_REM == "[COMMAND PATTERN REMOVED]"
URL_REM == "[URL REMOVED]"
PATH_RED == "[PATH REDACTED]"
SCRIPT_REM == "[SCRIPT REMOVED]"
TRUNC == "... [truncated]"
CUTQ == "aaa...a[:max_query_length]"
CUTR == "aaa...a[:max_result_length]"

max_query_length == 10000
max_result_length == 50000
BigLen == 50001
TruncLen == 15

\* len(): BIG is a word longer than both caps; CUTQ and CUTR are what a cut at
\* the cap leaves of the text up to and including it
TokLen(tok) == IF tok = BIG THEN BigLen ELSE IF tok = TRUNC THEN TruncLen ELSE 1

RECURSIVE SumLen(_)
SumLen(t) == IF t = <<>> THEN 0 ELSE TokLen(Head(t)) + SumLen(Tail(t))

LastCut(t) ==
    IF \E i \in 1..Len(t) : t[i] \in {CUTQ, CUTR}
    THEN CHOOSE i \in 1..Len(t) :
             t[i] \in {CUTQ, CUTR} /\ \A j \in (i + 1)..Len(t) : t[j] \notin {CUTQ, CUTR}
    ELSE 0

TextLen(t) ==
    LET c == LastCut(t)
    IN  IF c = 0
        THEN SumLen(t)
        ELSE (IF t[c] = CUTQ THEN max_query_length ELSE max_result_length)
             + SumLen(SubSeq(t, c + 1, Len(t)))

\* text[:cap]: the lexemes that fit, and the cut part of a BIG word that does not
Slice(t, cap, cut) ==
    IF TextLen(t) <= cap
    THEN t
    ELSE LET i == CHOOSE k \in 1..Len(t) :
                      /\ TextLen(SubSeq(t, 1, k)) > cap
                      /\ \A j \in 1..(k - 1) : TextLen(SubSeq(t, 1, j)) <= cap
         IN  IF t[i] = BIG
             THEN SubSeq(t, 1, i - 1) \o <<cut>>
             ELSE SubSeq(t, 1, i - 1)

\* str.split(): the maximal runs of lexemes that are not whitespace
RECURSIVE Words(_)
Words(t) ==
    LET s == lstrip(t)
    IN  IF s = <<>>
        THEN <<>>
        ELSE LET n == IF \E i \in 1..Len(s) : IsSpace(s[i])
                      THEN (CHOOSE i \in 1..Len(s) :
                                IsSpace(s[i]) /\ \A j \in 1..(i - 1) : ~IsSpace(s[j])) - 1
                      ELSE Len(s)
             IN  <<SubSeq(s, 1, n)>> \o Words(SubSeq(s, n + 1, Len(s)))

\* ' '.join(words)
RECURSIVE Join(_)
Join(ws) ==
    IF ws = <<>>
    THEN <<>>
    ELSE IF Len(ws) = 1 THEN ws[1] ELSE ws[1] \o <<sp>> \o Join(Tail(ws))

_remove_banned_words(text) ==
    LET words == Words(text)
        sanitized_words ==
            [i \in 1..Len(words) |->
                IF words[i] = <<BAN>> THEN <<REDACTED>> ELSE words[i]]
    IN  [text |-> Join(sanitized_words),
         found |-> \E i \in 1..Len(words) : words[i] = <<BAN>>]

_contains_profanity(text) == Contains(text, PROF)

_sanitize_profanity(text) == Replace(text, PROF, REDACTED)

\* the types found, in the order of pii_patterns
_detect_pii(text) ==
    (IF Contains(text, SSN) THEN <<"SSN">> ELSE <<>>)
    \o (IF Contains(text, CARD) THEN <<"CREDIT_CARD">> ELSE <<>>)
    \o (IF Contains(text, EMAIL) THEN <<"EMAIL">> ELSE <<>>)
    \o (IF Contains(text, PHONE) THEN <<"PHONE">> ELSE <<>>)

_sanitize_pii(text) ==
    Replace(Replace(Replace(Replace(text, SSN, SSN_RED), CARD, CARD_RED),
                    EMAIL, EMAIL_RED), PHONE, PHONE_RED)

_contains_sql_injection(text) == Contains(text, SQL)

_sanitize_sql_injection(text) == Replace(text, SQL, SQL_REM)

_extract_urls(text) ==
    SelectSeq(text, LAMBDA tok : tok \in {BADURL, GOODURL})

\* "&&" is a chaining operator and always counts; "& Co" matches only the
\* metacharacter pattern, which is skipped when the text holds a URL
_contains_command_injection(text) ==
    LET has_urls == _extract_urls(text) # <<>>
    IN  Contains(text, CMD) \/ (Contains(text, AMP) /\ ~has_urls)

_sanitize_command_injection(text) ==
    Replace(Replace(text, AMP, CMD_REM), CMD, CMD_REM)

_is_safe_url(url) == url # BADURL

_contains_sensitive_paths(text) == Contains(text, PATH)

_sanitize_paths(text) == Replace(text, PATH, PATH_RED)

_contains_suspicious_encoding(text) == Contains(text, ENC)

_decode_suspicious_encoding(text) == text

_contains_script_injection(text) == Contains(text, SCRIPT)

_sanitize_scripts(text) == Replace(text, SCRIPT, SCRIPT_REM)

NoReason == "None"

\* one warning per unsafe URL found, in order
UrlWarnings(urls, msg) ==
    [i \in 1..Len(SelectSeq(urls, LAMBDA u : ~_is_safe_url(u))) |->
        <<msg, SelectSeq(urls, LAMBDA u : ~_is_safe_url(u))[i]>>]

\* the locals of check_query and check_result as the heuristics run
Start(content) ==
    [input |-> content, sanitized |-> content, warnings |-> <<>>,
     blocked |-> FALSE, reason |-> NoReason]

Warn(v, msg) == [v EXCEPT !.warnings = Append(@, msg)]

Block_keeps_first(v, why) ==
    IF v.blocked THEN v ELSE [v EXCEPT !.blocked = TRUE, !.reason = why]

Block(v, why) == [v EXCEPT !.blocked = TRUE, !.reason = why]

Rewrite(v, text) == [v EXCEPT !.sanitized = text]

GuardrailResult(v) ==
    [passed |-> ~v.blocked,
     sanitized_content |-> v.sanitized,
     warnings |-> v.warnings,
     blocked |-> v.blocked,
     reason |-> v.reason]

\* Heuristics 1 to 10 of check_query
Q1(v) ==
    LET h == _remove_banned_words(v.sanitized)
    IN  IF h.found
        THEN Warn(Rewrite(v, h.text), <<"Banned words detected and removed from query">>)
        ELSE Rewrite(v, h.text)

Q2(v) ==
    IF _contains_profanity(v.sanitized)
    THEN Rewrite(Warn(v, <<"Profanity detected in query">>),
                 _sanitize_profanity(v.sanitized))
    ELSE v

Q3(v) ==
    IF _detect_pii(v.sanitized) # <<>>
    THEN Rewrite(Warn(v, <<"Potential PII detected in query">> \o _detect_pii(v.sanitized)),
                 _sanitize_pii(v.sanitized))
    ELSE v

Q4(v) ==
    IF _contains_sql_injection(v.sanitized)
    THEN Rewrite(Block(v, "SQL injection pattern detected in query"),
                 _sanitize_sql_injection(v.sanitized))
    ELSE v

Q5(v) ==
    IF _contains_command_injection(v.sanitized)
    THEN Rewrite(Block(v, "Command injection pattern detected in query"),
                 _sanitize_command_injection(v.sanitized))
    ELSE v

Q6(v) ==
    [v EXCEPT !.warnings =
        @ \o UrlWarnings(_extract_urls(v.sanitized), "Potentially unsafe URL detected")]

Q7(v) ==
    IF _contains_sensitive_paths(v.sanitized)
    THEN Rewrite(Block(v, "Sensitive file path detected in query"),
                 _sanitize_paths(v.sanitized))
    ELSE v

Q8(v) ==
    IF TextLen(v.input) > max_query_length
    THEN Rewrite(Warn(v, <<"Query exceeds maximum length">>),
                 Slice(v.sanitized, max_query_length, CUTQ) \o <<TRUNC>>)
    ELSE v

Q9(v) ==
    IF _contains_suspicious_encoding(v.sanitized)
    THEN Rewrite(Warn(v, <<"Suspicious encoding patterns detected">>),
                 _decode_suspicious_encoding(v.sanitized))
    ELSE v

Q10(v) ==
    IF _contains_script_injection(v.sanitized)
    THEN Rewrite(Block(v, "Script injection pattern detected in query"),
                 _sanitize_scripts(v.sanitized))
    ELSE v

check_query(query) ==
    GuardrailResult(Q10(Q9(Q8(Q7(Q6(Q5(Q4(Q3(Q2(Q1(Start(query))))))))))))

\* Heuristics 1 to 10 of check_result
R1(v) ==
    LET h == _remove_banned_words(v.sanitized)
    IN  IF h.found
        THEN Warn(Rewrite(v, h.text), <<"Banned words detected and removed from result">>)
        ELSE Rewrite(v, h.text)

R2(v) ==
    IF _contains_profanity(v.sanitized)
    THEN Rewrite(Warn(v, <<"Profanity detected in result">>),
                 _sanitize_profanity(v.sanitized))
    ELSE v

R3(v) ==
    IF _detect_pii(v.sanitized) # <<>>
    THEN Rewrite(Warn(v, <<"PII detected in result">> \o _detect_pii(v.sanitized)),
                 _sanitize_pii(v.sanitized))
    ELSE v

R4(v) ==
    IF _contains_sql_injection(v.sanitized)
    THEN Warn(v, <<"SQL injection pattern detected in result (may be false positive)">>)
    ELSE v

R5(v) ==
    IF _contains_command_injection(v.sanitized)
    THEN Warn(v, <<"Command injection pattern detected in result (may be false positive in document content)">>)
    ELSE v

R6(v) ==
    [v EXCEPT
        !.warnings =
            @ \o UrlWarnings(_extract_urls(v.sanitized), "Potentially unsafe URL in result"),
        !.sanitized = Replace(@, BADURL, URL_REM)]

R7(v) ==
    IF _contains_sensitive_paths(v.sanitized)
    THEN Rewrite(Warn(v, <<"Sensitive file path detected in result">>),
                 _sanitize_paths(v.sanitized))
    ELSE v

R8(v) ==
    IF TextLen(v.input) > max_result_length
    THEN Rewrite(Warn(v, <<"Result exceeds maximum length">>),
                 Slice(v.sanitized, max_result_length, CUTR) \o <<TRUNC>>)
    ELSE v

R9(v) ==
    IF _contains_suspicious_encoding(v.sanitized)
    THEN Rewrite(Warn(v, <<"Suspicious encoding patterns detected in result">>),
                 _decode_suspicious_encoding(v.sanitized))
    ELSE v

R10_blocking(v) ==
    IF _contains_script_injection(v.sanitized)
    THEN Rewrite(Block(v, "Script injection pattern detected in result"),
                 _sanitize_scripts(v.sanitized))
    ELSE v

R10(v) ==
    IF _contains_script_injection(v.sanitized)
    THEN Warn(v, <<"Script injection pattern detected in result (may be false positive in document content)">>)
    ELSE v

check_result(result) ==
    GuardrailResult(R10(R9(R8(R7(R6(R5(R4(R3(R2(R1(Start(result))))))))))))

(***************************************************************************)
(* core/loop.py and agent.py: fixed texts and inputs.                      *)
(***************************************************************************)
MAXSTEPS == "[Max steps reached]"
EXECFAILED == "[Execution failed]"
APOLOGY == "I apologize, but I encountered an error while processing your request."
HAS_CONTEXT == "HAS_CONTEXT:"
NO_CONTEXT == "NO_CONTEXT"
NEGATION == "does not contain"
RESULT_BLOCKED == "[Result blocked"
ERRORMARK == "[error"
PREVQ == "Previous Q:"
PREVA == "Previous A:"
TopK == 5

MaxStepsAnswer_unmarked == <<MAXSTEPS>>

MaxStepsAnswer == <<FA, sp, MAXSTEPS>>
NoToolsErrorAnswer == <<FA, sp, APOLOGY>>

\* what the user types
Queries ==
    { <<w>>, <<BAN, sp, w>>, <<SQL, sp, w>>, <<w, sp, CMD, sp, w>>,
      <<PATH>>, <<SCRIPT, sp, w>> }

\* what run_python_sandbox returns
ExecResults ==
    { <<FA, sp, w>>,
      <<nl, FA, sp, SCRIPT, sp, SQL, sp, PATH, sp, SSN, nl>>,
      <<FPR, sp, w>>,
      <<ERR, sp, w>>,
      <<w>>,
      <<w, sp, FPR, sp, w>>,
      <<>>,
      NotStr }

\* what generate_text returns to the loop, or that it raised
LLMRaise == <<"#raise">>
LLMTexts == { <<FA, sp, w>>, <<w, sp, EMAIL, nl>> }
LLMOutcomes == LLMTexts \cup {LLMRaise}

\* what generate_text returns to the historical pre-check
JudgeOutcomes ==
    { <<FA, sp, w>>, <<HAS_CONTEXT, sp, w>>, <<HAS_CONTEXT, sp, NEGATION>>,
      <<NO_CONTEXT>>, LLMRaise }

\* the user_input of the AgentContext a run starts from
LoopInputs == { <<w>>, <<LTP, sp, w>> }

\* the conversations found on disk when the process starts
InitialStores ==
    { <<>>,
      <<[user_query |-> <<w>>, final_answer |-> <<w>>]>>,
      <<[user_query |-> <<w>>, final_answer |-> <<MAXSTEPS>>]>> }

VARIABLES
    max_steps, max_lifelines,
    mpc, turns, user_input, original_user_input, query_check,
    historical_context, final_answer_text, result_check, printed, events, store, indexed,
    pc, step, lifelines_left, further_processing_count, user_input_override,
    final_answer, memory, ret, selected_tools, result, llm,
    plannerCalls, sandboxCalls, llmCalls,
    ipc, index, metadata, index_file, metadata_file, embedding, inserts,
    restarts, ins, acked, load_raised, search_ret, hist, procs, gate

cfgVars == <<max_steps, max_lifelines>>
mainVars ==
    <<mpc, turns, user_input, original_user_input, query_check,
      historical_context, final_answer_text, result_check, printed, events, store, indexed>>
loopVars ==
    <<pc, step, lifelines_left, further_processing_count, user_input_override,
      final_answer, memory, ret, selected_tools, result, llm,
      plannerCalls, sandboxCalls, llmCalls>>
memVars ==
    <<ipc, index, metadata, index_file, metadata_file, embedding, inserts,
      restarts, ins, acked, load_raised, search_ret, hist, procs, gate>>
vars == <<cfgVars, mainVars, loopVars, memVars>>

\* context.memory is observed through the number of its tool-output items and
\* the most recent one
NoMemory ==
    [count |-> 0,
     last |-> [tool_name |-> "none", result |-> NoneText, success |-> FALSE]]

NoRet == [status |-> "none", result |-> NoneText, via |-> "none"]
NoCheck ==
    [passed |-> TRUE, sanitized_content |-> NoneText, warnings |-> <<>>,
     blocked |-> FALSE, reason |-> NoReason]

\* ConversationIndexer: self.index = None, and the two files before anything
\* is written to them
NoIndex == [present |-> FALSE, dim |-> 0, vecs |-> <<>>]
AbsentIndexFile == [state |-> "absent", content |-> NoIndex]
AbsentMetadataFile == [state |-> "absent", content |-> <<>>]
NoEmbedding == [dim |-> 0, vec |-> 0]
NoInsert ==
    [conv |-> 0, embedded |-> FALSE, add_error |-> "none", appended |-> FALSE,
     saved |-> FALSE, returned |-> FALSE]
NoSearch == [failure |-> "none", top_k |-> 0, results |-> <<>>, called |-> FALSE]

\* check_historical_conversations before it is called: what it has found,
\* built and been told so far, and the dict it returns
NoDisposition ==
    [can_answer |-> FALSE, has_context |-> FALSE,
     answer |-> NoneText, context |-> NoneText]
NoHist ==
    [hpc |-> "idle", query |-> NoneText, found |-> <<>>, data |-> <<>>,
     items |-> NoneText,
     response |-> NoneText, judged |-> 0, returned |-> NoDisposition]

\* the guardrail taken alone: the text given to a check, the verdict on it,
\* and the verdict of the same check on the sanitized content of the first
NoGate ==
    [gpc |-> "idle", side |-> "none", text |-> NoneText,
     first |-> NoCheck, second |-> NoCheck]

\* the processes that share the two files: two agent sessions, each with the
\* indexer of its own process, and a memory server that searches
Sessions == {"session1", "session2"}
Procs == Sessions \cup {"server"}
NoSeen == [called |-> FALSE, ntotal |-> 0, len |-> 0, results |-> <<>>]
NoProc == [ppc |-> "down", index |-> NoIndex, metadata |-> <<>>, seen |-> NoSeen]
NoProcs == [p \in Procs |-> NoProc]

\* the indexer as the turn-level specifications leave it: not exercised
MemoryIdle ==
    /\ ipc = "down"
    /\ index = NoIndex
    /\ metadata = <<>>
    /\ index_file = AbsentIndexFile
    /\ metadata_file = AbsentMetadataFile
    /\ embedding = NoEmbedding
    /\ inserts = 0
    /\ restarts = 0
    /\ ins = NoInsert
    /\ acked = <<>>
    /\ load_raised = "none"
    /\ search_ret = NoSearch
    /\ hist = NoHist
    /\ procs = NoProcs
    /\ gate = NoGate

Init ==
    /\ max_steps \in 1..TurnStepsBound
    /\ max_lifelines \in 0..TurnLifelinesBound
    /\ mpc = "input"
    /\ turns = 0
    /\ user_input = NoneText
    /\ original_user_input = NoneText
    /\ query_check = NoCheck
    /\ historical_context = NoneText
    /\ final_answer_text = NoneText
    /\ result_check = NoCheck
    /\ printed = NoneText
    /\ events = <<>>
    /\ store \in InitialStores
    /\ indexed = FALSE
    /\ pc = "idle"
    /\ step = -1
    /\ lifelines_left = 0
    /\ further_processing_count = 0
    /\ user_input_override = NoneText
    /\ final_answer = NoneText
    /\ memory = NoMemory
    /\ ret = NoRet
    /\ selected_tools = "unset"
    /\ result = NoneText
    /\ llm = "none"
    /\ plannerCalls = 0
    /\ sandboxCalls = 0
    /\ llmCalls = 0
    /\ MemoryIdle

(***************************************************************************)
(* AgentLoop.run                                                           *)
(***************************************************************************)
\* a value is truthy when it is neither None nor the empty string
Truthy(t) == t # NoneText /\ t # <<>>

\* user_input_override or user_input
CurrentInput == IF Truthy(user_input_override) THEN user_input_override ELSE user_input

\* "FINAL_ANSWER: " is put in front of an answer that does not start with it
WrapFinal_bare(t) == t

WrapFinal(t) == IF startswith(t, FA) THEN t ELSE <<FA, sp>> \o t

add_tool_output_dropped(mem, tool_name, tool_result, success) == mem

add_tool_output(mem, tool_name, tool_result, success) ==
    [count |-> mem.count + 1,
     last |-> [tool_name |-> tool_name, result |-> tool_result, success |-> success]]

ConsumeLifeline_kept(l) == l

ConsumeLifeline(l) == l - 1

IsRepeatedFurtherProcessing_late(count) == count > 2

IsRepeatedFurtherProcessing(count) == count > 1

ComposeOverride(task, content) ==
    <<OUT, sp>> \o task \o <<nl, LTP, nl>> \o content
        \o <<nl, CRIT, sp, w, nl, w, sp, FA, sp, w>>

ImplicitDone(success, r) == success /\ ~Contains(r, FPR)

Return(status, via) ==
    /\ pc' = "returned"
    /\ ret' = [status |-> status, result |-> final_answer', via |-> via]

\* lifelines_left = ...strategy.max_lifelines_per_step, first statement of
\* every step
StepLifelines_carried(budget, left) == left

StepLifelines(budget, left) == budget

\* for step in range(max_steps): the next step starts
ForStep ==
    /\ pc = "for"
    /\ step + 1 < max_steps
    /\ step' = step + 1
    /\ lifelines_left' = StepLifelines(max_lifelines, lifelines_left)
    /\ pc' = "while"
    /\ UNCHANGED <<further_processing_count, user_input_override, final_answer,
                   memory, ret, selected_tools, result, llm, plannerCalls,
                   sandboxCalls, llmCalls>>
    /\ UNCHANGED <<cfgVars, memVars, mainVars>>

\* the for loop is exhausted
MaxStepsReached ==
    /\ pc = "for"
    /\ step + 1 >= max_steps
    /\ final_answer' = MaxStepsAnswer
    /\ Return("done", "max_steps")
    /\ UNCHANGED <<step, lifelines_left, further_processing_count,
                   user_input_override, memory, selected_tools, result, llm,
                   plannerCalls, sandboxCalls, llmCalls>>
    /\ UNCHANGED <<cfgVars, memVars, mainVars>>

\* while lifelines_left >= 0 is false
WhileExit ==
    /\ pc = "while"
    /\ lifelines_left < 0
    /\ pc' = "for"
    /\ UNCHANGED <<step, lifelines_left, further_processing_count,
                   user_input_override, final_answer, memory, ret,
                   selected_tools, result, llm, plannerCalls, sandboxCalls,
                   llmCalls>>
    /\ UNCHANGED <<cfgVars, memVars, mainVars>>

\* the branch taken once the tools are selected
AfterPerception_always_plans(selected, current_input) ==
    IF Contains(current_input, LTP) THEN "analysis" ELSE "plan"

AfterPerception_without_analysis(selected, current_input) ==
    IF selected = "empty" THEN "no_tools" ELSE "plan"

AfterPerception(selected, current_input) ==
    IF selected = "empty" THEN "no_tools"
    ELSE IF Contains(current_input, LTP) THEN "analysis"
    ELSE "plan"

\* run_perception and the selection of tools
Perceive ==
    /\ pc = "while"
    /\ lifelines_left >= 0
    /\ selected_tools' \in {"empty", "nonempty"}
    /\ pc' = AfterPerception(selected_tools', CurrentInput)
    /\ UNCHANGED <<step, lifelines_left, further_processing_count,
                   user_input_override, final_answer, memory, ret, result, llm,
                   plannerCalls, sandboxCalls, llmCalls>>
    /\ UNCHANGED <<cfgVars, memVars, mainVars>>

\* no tools selected: the LLM answers directly
NoToolsFallback ==
    /\ pc = "no_tools"
    /\ \E out \in LLMOutcomes :
          IF out # LLMRaise
          THEN /\ llm' = "ok"
               /\ final_answer' = WrapFinal(strip(out))
               /\ memory' = add_tool_output(memory, "direct_llm_response",
                                            final_answer', TRUE)
               /\ Return("done", "direct_llm_response")
          ELSE /\ llm' = "raise"
               /\ final_answer' = NoToolsErrorAnswer
               /\ memory' = memory
               /\ Return("error", "no_tools_error")
    /\ llmCalls' = llmCalls + 1
    /\ UNCHANGED <<step, lifelines_left, further_processing_count,
                   user_input_override, selected_tools, result, plannerCalls,
                   sandboxCalls>>
    /\ UNCHANGED <<cfgVars, memVars, mainVars>>

\* except Exception around the direct analysis: the error is logged and
\* control falls through to normal planning
DirectAnalysisFailed_propagates == "raised"

DirectAnalysisFailed == "plan"

\* the input already carries a tool's content: the LLM analyses it
DirectAnalysis ==
    /\ pc = "analysis"
    /\ \E out \in LLMOutcomes :
          IF out # LLMRaise
          THEN /\ llm' = "ok"
               /\ final_answer' = WrapFinal(strip(out))
               /\ memory' = add_tool_output(memory, "llm_direct_analysis",
                                            final_answer', TRUE)
               /\ Return("done", "llm_direct_analysis")
          ELSE /\ llm' = "raise"
               /\ pc' = DirectAnalysisFailed
               /\ UNCHANGED <<final_answer, memory, ret>>
    /\ llmCalls' = llmCalls + 1
    /\ UNCHANGED <<step, lifelines_left, further_processing_count,
                   user_input_override, selected_tools, result, plannerCalls,
                   sandboxCalls>>
    /\ UNCHANGED <<cfgVars, memVars, mainVars>>

\* what happens inside the planner: it writes a plan with a solve()
\* function, it writes a text without one, or its own LLM call fails
PlannerOutcomes == {"solve", "text", "fault"}

\* generate_plan: a fault inside the planner is caught there and comes back
\* as a plan text without a solve() function
generate_plan(outcome) == IF outcome = "fault" THEN "text" ELSE outcome

\* re.search(r"^\s*(async\s+)?def\s+solve\s*\(", plan, re.MULTILINE)
has_solve(plan) == plan = "solve"

\* generate_plan, and the test for a solve() plan
Plan ==
    /\ pc = "plan"
    /\ plannerCalls' = plannerCalls + 1
    /\ \E outcome \in PlannerOutcomes :
          IF has_solve(generate_plan(outcome))
          THEN /\ pc' = "exec"
               /\ lifelines_left' = lifelines_left
          ELSE /\ pc' = "while"
               /\ lifelines_left' = ConsumeLifeline(lifelines_left)
    /\ UNCHANGED <<step, further_processing_count, user_input_override,
                   final_answer, memory, ret, selected_tools, result, llm,
                   sandboxCalls, llmCalls>>
    /\ UNCHANGED <<cfgVars, memVars, mainVars>>

\* the branches of the execution block once the sandbox has returned raw
Retry(r, success) ==
    /\ memory' = add_tool_output(memory, "solve_sandbox", r, success)
    /\ IF ImplicitDone(success, r)
       THEN /\ Return("done", "implicit")
            /\ lifelines_left' = lifelines_left
       ELSE /\ pc' = "while"
            /\ lifelines_left' = ConsumeLifeline(lifelines_left)
            /\ ret' = ret

ExecNotStr(raw) ==
    /\ result' = raw
    /\ final_answer' = <<FA, sp>> \o Str(raw)
    /\ Retry(raw, FALSE)
    /\ UNCHANGED <<further_processing_count, user_input_override, llm, llmCalls>>

ExecFinal(r) ==
    /\ result' = r
    /\ final_answer' = r
    /\ memory' = add_tool_output(memory, "solve_sandbox", r, TRUE)
    /\ Return("done", "solve_sandbox")
    /\ UNCHANGED <<lifelines_left, further_processing_count,
                   user_input_override, llm, llmCalls>>

ExecFurther(r) ==
    LET content == strip(SplitSecond(r, FPR))
        forward ==
            /\ user_input_override' = ComposeOverride(user_input, content)
            /\ pc' = "for"
            /\ UNCHANGED <<final_answer, memory, ret>>
    IN  /\ result' = r
        /\ further_processing_count' = further_processing_count + 1
        /\ lifelines_left' = lifelines_left
        /\ IF IsRepeatedFurtherProcessing(further_processing_count')
           THEN \E out \in LLMOutcomes :
                   /\ llmCalls' = llmCalls + 1
                   /\ IF out # LLMRaise
                      THEN /\ llm' = "ok"
                           /\ final_answer' = WrapFinal(strip(out))
                           /\ memory' = add_tool_output(memory,
                                             "llm_fallback_analysis",
                                             final_answer', TRUE)
                           /\ Return("done", "llm_fallback_analysis")
                           /\ user_input_override' = user_input_override
                      ELSE /\ llm' = "raise"
                           /\ forward
           ELSE /\ UNCHANGED <<llm, llmCalls>>
                /\ forward

ExecError(r) ==
    /\ result' = r
    /\ final_answer' = <<FA, sp, EXECFAILED>>
    /\ Retry(r, FALSE)
    /\ UNCHANGED <<further_processing_count, user_input_override, llm, llmCalls>>

ExecOther(r) ==
    /\ result' = r
    /\ final_answer' = <<FA, sp>> \o r
    /\ Retry(r, TRUE)
    /\ UNCHANGED <<further_processing_count, user_input_override, llm, llmCalls>>

\* run_python_sandbox and the classification of its result
Execute ==
    /\ pc = "exec"
    /\ sandboxCalls' = sandboxCalls + 1
    /\ \E raw \in ExecResults :
          IF raw = NotStr
          THEN ExecNotStr(raw)
          ELSE LET r == strip(raw)
               IN  IF startswith(r, FA) THEN ExecFinal(r)
                   ELSE IF startswith(r, FPR) THEN ExecFurther(r)
                   ELSE IF startswith(r, ERR) THEN ExecError(r)
                   ELSE ExecOther(r)
    /\ UNCHANGED <<step, selected_tools, plannerCalls>>
    /\ UNCHANGED <<cfgVars, memVars, mainVars>>

(***************************************************************************)
(* modules/historical_check.py                                             *)
(***************************************************************************)
\* search_conversations(query, top_k=5): the nearest records, or nothing when
\* the search fails
\* search_historical_conversations: is_error.  The patterns are matched in
\* the lower-cased answer; "[failed" and "[blocked" occur in no text here,
\* and an answer in brackets with an error word in it carries one of the
\* patterns already
is_error(a) ==
    \/ Contains(a, MAXSTEPS)
    \/ Contains(a, RESULT_BLOCKED)
    \/ Contains(a, EXECFAILED)
    \/ Contains(a, ERR)
    \/ Contains(a, ERRORMARK)

\* formatted_results: the records found, without those is_error holds of
RECURSIVE formatted_results(_)
formatted_results(results) ==
    IF results = <<>> THEN <<>>
    ELSE (IF is_error(Head(results).final_answer)
          THEN <<>>
          ELSE <<[user_query |-> Head(results).user_query,
                  final_answer |-> Head(results).final_answer]>>)
            \o formatted_results(Tail(results))

\* historical_data: what the search tool hands over, or nothing when the
\* call or the parsing of its reply fails
Neighbours ==
    { formatted_results(SubSeq(store, 1, IF Len(store) < TopK THEN Len(store) ELSE TopK)),
      <<>> }

IsErrorAnswer(a) ==
    Contains(a, MAXSTEPS) \/ Contains(a, RESULT_BLOCKED) \/ Contains(a, ERRORMARK)

RECURSIVE ContextItems(_)
ContextItems(data) ==
    IF data = <<>>
    THEN <<>>
    ELSE (IF IsErrorAnswer(Head(data).final_answer)
          THEN <<>>
          ELSE <<PREVQ, sp>> \o Head(data).user_query \o <<nl, PREVA, sp>>
                   \o Head(data).final_answer \o <<nl>>)
         \o ContextItems(Tail(data))

\* answer = llm_response: the direct answer is the response as it is
direct_answer_gated(response) == check_result(response).sanitized_content

direct_answer(response) == response

\* the disposition, were a HAS_CONTEXT: response taken at its word
Disposition_hedging(data, out) ==
    LET items == ContextItems(data)
        response == strip(out)
        none == [can_answer |-> FALSE, has_context |-> FALSE,
                 answer |-> NoneText, context |-> NoneText]
    IN  IF items = <<>> \/ out = LLMRaise THEN none
        ELSE IF startswith(response, FA)
        THEN [none EXCEPT !.can_answer = TRUE, !.answer = response]
        ELSE IF startswith(response, HAS_CONTEXT)
        THEN [none EXCEPT !.has_context = TRUE, !.context = items]
        ELSE none

\* the disposition: can_answer, has_context, and the answer or the context
Disposition(data, out) ==
    LET items == ContextItems(data)
        response == strip(out)
        none == [can_answer |-> FALSE, has_context |-> FALSE,
                 answer |-> NoneText, context |-> NoneText]
    IN  IF items = <<>> \/ out = LLMRaise THEN none
        ELSE IF startswith(response, FA)
        THEN [none EXCEPT !.can_answer = TRUE, !.answer = direct_answer(response)]
        ELSE IF startswith(response, HAS_CONTEXT)
                /\ ~Contains(response, NEGATION)
        THEN [none EXCEPT !.has_context = TRUE, !.context = items]
        ELSE none

(***************************************************************************)
(* agent.py: one user turn                                                 *)
(***************************************************************************)
\* the answer text handed to index_conversation
RecordedAnswer_sanitized(text) == check_result(text).sanitized_content

RecordedAnswer(text) == text

\* the text printed after the outbound check
Surfaced_raw(text, check) == text

Surfaced(text, check) == check.sanitized_content

\* if query_check.blocked: the query is rejected and the turn ends
Rejected_never(check) == FALSE

Rejected(check) == check.blocked

\* input(), check_query and the rejection of a blocked query
ReadInput ==
    /\ mpc = "input"
    /\ turns < MaxTurns
    /\ turns' = turns + 1
    /\ \E q \in Queries :
          /\ query_check' = check_query(q)
          /\ IF Rejected(query_check')
             THEN /\ events' = <<"inbound", "rejected">>
                  /\ printed' = <<query_check'.reason>>
                  /\ mpc' = "input"
                  /\ user_input' = q
                  /\ UNCHANGED original_user_input
             ELSE /\ events' = <<"inbound">>
                  /\ printed' = NoneText
                  /\ original_user_input' = q
                  /\ user_input' = IF query_check'.warnings # <<>>
                                   THEN query_check'.sanitized_content
                                   ELSE q
                  /\ mpc' = "precheck"
    /\ historical_context' = NoneText
    /\ final_answer_text' = NoneText
    /\ result_check' = NoCheck
    /\ pc' = "idle"
    /\ step' = -1
    /\ lifelines_left' = 0
    /\ further_processing_count' = 0
    /\ user_input_override' = NoneText
    /\ final_answer' = NoneText
    /\ memory' = NoMemory
    /\ ret' = NoRet
    /\ selected_tools' = "unset"
    /\ result' = NoneText
    /\ llm' = "none"
    /\ plannerCalls' = 0
    /\ sandboxCalls' = 0
    /\ llmCalls' = 0
    /\ UNCHANGED <<cfgVars, memVars, store>>
    /\ indexed' = FALSE

\* check_historical_conversations, then either the direct answer or a new
\* AgentContext and the call of AgentLoop.run
PreCheck ==
    /\ mpc = "precheck"
    /\ \E data \in Neighbours, out \in JudgeOutcomes :
          LET historical_check == Disposition(data, out)
          IN  IF historical_check.can_answer
              THEN /\ final_answer_text' =
                         IF Contains(historical_check.answer, FA)
                         THEN strip(SplitSecond(historical_check.answer, FA))
                         ELSE historical_check.answer
                   /\ events' = Append(events, "precheck")
                   /\ mpc' = "index"
                   /\ UNCHANGED <<historical_context, loopVars>>
              ELSE /\ historical_context' = historical_check.context
                   /\ events' = events \o <<"precheck", "loop">>
                   /\ mpc' = "run"
                   /\ pc' = "for"
                   /\ step' = -1
                   /\ lifelines_left' = 0
                   /\ further_processing_count' = 0
                   /\ user_input_override' = NoneText
                   /\ final_answer' = NoneText
                   /\ memory' = NoMemory
                   /\ ret' = NoRet
                   /\ selected_tools' = "unset"
                   /\ result' = NoneText
                   /\ llm' = "none"
                   /\ plannerCalls' = 0
                   /\ sandboxCalls' = 0
                   /\ llmCalls' = 0
                   /\ UNCHANGED final_answer_text
    /\ UNCHANGED <<turns, user_input, original_user_input, query_check,
                   result_check, printed, store, indexed, cfgVars, memVars>>

\* result = await agent.run(), and the branch on the answer it carries
ReturnFromRun ==
    /\ mpc = "run"
    /\ pc = "returned"
    /\ LET answer == ret.result
       IN  IF Contains(answer, FA)
           THEN /\ final_answer_text' = strip(SplitSecond(answer, FA))
                /\ mpc' = "index"
                /\ UNCHANGED <<user_input, printed>>
           ELSE IF Contains(answer, FPR)
           THEN /\ user_input' = strip(SplitSecond(answer, FPR))
                /\ printed' = user_input'
                /\ mpc' = "precheck"
                /\ UNCHANGED final_answer_text
           ELSE /\ final_answer_text' = answer
                /\ mpc' = "index"
                /\ UNCHANGED <<user_input, printed>>
    /\ pc' = "idle"
    /\ UNCHANGED <<step, lifelines_left, further_processing_count,
                   user_input_override, final_answer, memory, ret,
                   selected_tools, result, llm, plannerCalls, sandboxCalls,
                   llmCalls>>
    /\ UNCHANGED <<turns, original_user_input, query_check, historical_context,
                   result_check, events, store, indexed, cfgVars, memVars>>

\* index_conversation with the original query and the original answer; a
\* failure inside it is caught and leaves the store as it was
\* index_conversation as the turn sees it: a successful call adds one record
\* at the end of the store, whatever the store already holds; a failed call
\* (the exception is caught inside) leaves the store as it was
index_conversation_deduplicating(st, rec, ok) ==
    IF ok /\ \A i \in DOMAIN st : st[i].user_query # rec.user_query
    THEN Append(st, rec)
    ELSE st

index_conversation(st, rec, ok) ==
    IF ok THEN Append(st, rec) ELSE st

IndexExchange ==
    /\ mpc = "index"
    /\ \E ok \in BOOLEAN :
          /\ indexed' = ok
          /\ store' = index_conversation(store,
                                         [user_query |-> original_user_input,
                                          final_answer |-> RecordedAnswer(final_answer_text)],
                                         ok)
    /\ events' = Append(events, "insert")
    /\ mpc' = "gate"
    /\ UNCHANGED <<turns, user_input, original_user_input, query_check,
                   historical_context, final_answer_text, result_check, printed,
                   cfgVars, memVars, loopVars>>

\* check_result at the final print statement
SurfaceAnswer ==
    /\ mpc = "gate"
    /\ result_check' = check_result(final_answer_text)
    /\ printed' = Surfaced(final_answer_text, result_check')
    /\ events' = events \o <<"outbound", "print">>
    /\ mpc' = "input"
    /\ UNCHANGED <<turns, user_input, original_user_input, query_check,
                   historical_context, final_answer_text, store, indexed, cfgVars, memVars, loopVars>>

Next ==
    \/ ReadInput
    \/ PreCheck
    \/ ForStep
    \/ MaxStepsReached
    \/ WhileExit
    \/ Perceive
    \/ NoToolsFallback
    \/ DirectAnalysis
    \/ Plan
    \/ Execute
    \/ ReturnFromRun
    \/ IndexExchange
    \/ SurfaceAnswer

Spec == Init /\ [][Next]_vars

(***************************************************************************)
(* One run of AgentLoop.run, from the AgentContext agent.py hands it.      *)
(***************************************************************************)
InitLoop ==
    /\ max_steps \in 1..MaxStepsBound
    /\ max_lifelines \in 0..MaxLifelinesBound
    /\ mpc = "run"
    /\ turns = 1
    /\ user_input \in LoopInputs
    /\ original_user_input = user_input
    /\ query_check = check_query(user_input)
    /\ historical_context = NoneText
    /\ final_answer_text = NoneText
    /\ result_check = NoCheck
    /\ printed = NoneText
    /\ events = <<"inbound", "precheck", "loop">>
    /\ store = <<>>
    /\ indexed = FALSE
    /\ pc = "for"
    /\ step = -1
    /\ lifelines_left = 0
    /\ further_processing_count = 0
    /\ user_input_override = NoneText
    /\ final_answer = NoneText
    /\ memory = NoMemory
    /\ ret = NoRet
    /\ selected_tools = "unset"
    /\ result = NoneText
    /\ llm = "none"
    /\ plannerCalls = 0
    /\ sandboxCalls = 0
    /\ llmCalls = 0
    /\ MemoryIdle

NextLoop ==
    \/ ForStep
    \/ MaxStepsReached
    \/ WhileExit
    \/ Perceive
    \/ NoToolsFallback
    \/ DirectAnalysis
    \/ Plan
    \/ Execute

LoopSpec == InitLoop /\ [][NextLoop]_vars

\* every external call returns or raises: a run that can take a step takes one
FairLoopSpec == LoopSpec /\ WF_vars(NextLoop)

(***************************************************************************)
(* Properties of AgentLoop.run                                             *)
(***************************************************************************)
\* C1: a run of the task loop terminates, and it calls the planner at most
\* max_steps * (max_lifelines + 1) times
C1_BoundedRun ==
    /\ [](plannerCalls <= max_steps * (max_lifelines + 1))
    /\ <>(pc = "returned")

\* a run that used every lifeline of every step on the planner
C1_Witness ==
    /\ pc = "returned"
    /\ max_steps >= 2
    /\ max_lifelines >= 1
    /\ plannerCalls = max_steps * (max_lifelines + 1)

\* C2: when the outer steps are used up without a terminal transition, the
\* next thing run() does is return "FINAL_ANSWER: [Max steps reached]" with
\* status done; it raises nothing
C2_MaxStepsSentinel ==
    [][(pc = "for" /\ step + 1 >= max_steps)
          => /\ pc' = "returned"
             /\ ret'.status = "done"
             /\ ret'.result = <<FA, sp, MAXSTEPS>>]_vars

C2_Witness ==
    /\ pc = "returned"
    /\ max_steps >= 2
    /\ step = max_steps - 1
    /\ plannerCalls > 0
    /\ ret.result = <<FA, sp, MAXSTEPS>>

\* the executor has just returned FURTHER_PROCESSING_REQUIRED for the
\* second or a later time
RepeatedFurtherProcessing ==
    /\ pc = "exec"
    /\ further_processing_count >= 1
    /\ further_processing_count' = further_processing_count + 1

\* C3 as stated: from the second FURTHER_PROCESSING_REQUIRED on, the planner
\* is never called again and the run ends there with a FINAL_ANSWER
C3_NoPlanningAfterSecond ==
    [][/\ RepeatedFurtherProcessing
          => /\ pc' = "returned"
             /\ startswith(ret'.result, FA)
             /\ memory'.last.tool_name = "llm_fallback_analysis"
       /\ further_processing_count >= 2 => plannerCalls' = plannerCalls]_vars

\* C3: from the second FURTHER_PROCESSING_REQUIRED on, whatever lifelines are
\* left, the LLM backend is asked directly; if it answers, the run ends there
\* with a FINAL_ANSWER recorded as llm_fallback_analysis and no planner call;
\* if it raises, the content is forwarded as on the first occurrence
C3_Escalation ==
    [][RepeatedFurtherProcessing
          => /\ llmCalls' = llmCalls + 1
             /\ plannerCalls' = plannerCalls
             /\ llm' \in {"ok", "raise"}
             /\ llm' = "ok"
                   => /\ pc' = "returned"
                      /\ ret'.status = "done"
                      /\ startswith(ret'.result, FA)
                      /\ memory'.last.tool_name = "llm_fallback_analysis"
                      /\ memory'.last.result = ret'.result
             /\ llm' = "raise"
                   => /\ pc' = "for"
                      /\ memory' = memory
                      /\ user_input_override' =
                            ComposeOverride(user_input,
                                            strip(SplitSecond(result', FPR)))]_vars

C3_Witness ==
    /\ pc = "returned"
    /\ further_processing_count = 2
    /\ lifelines_left = max_lifelines
    /\ max_lifelines >= 1
    /\ llm = "ok"
    /\ memory.last.tool_name = "llm_fallback_analysis"

\* C4: on the first FURTHER_PROCESSING_REQUIRED the content is written into
\* the next-iteration input and planning restarts inside the same outer
\* step: the step index stays and control stays in the step's inner loop
C4_ContinuesInSameStep ==
    [][(pc = "exec" /\ further_processing_count = 0
                    /\ further_processing_count' = 1)
          => /\ user_input_override' =
                   ComposeOverride(user_input, strip(SplitSecond(result', FPR)))
             /\ step' = step
             /\ pc' = "while"]_vars

\* an answer matches a memory item when the item holds the answer, or the
\* text the answer was formed from by putting "FINAL_ANSWER: " in front
Records(item, answer) ==
    \/ item.result = answer
    \/ <<FA, sp>> \o item.result = answer

\* C5 as stated: whenever the loop returns, the last Session Memory item is a
\* successful tool output that records the returned answer
C5_EveryReturnRecorded ==
    pc = "returned"
       => /\ memory.count > 0
          /\ memory.last.success
          /\ Records(memory.last, ret.result)

\* the memory tag under which each kind of terminal answer is recorded
TerminalTag(via) == IF via = "implicit" THEN "solve_sandbox" ELSE via

\* C5: a return with an answer of the LLM or of the sandbox is preceded, in
\* the same transition, by one new successful Session Memory item that
\* records the answer under the tag of its source; the max-steps answer and
\* the apology of the no-tools path are returned with no such item
C5_TerminalAnswerRecorded ==
    [][(pc # "returned" /\ pc' = "returned")
          => IF ret'.result \in {<<FA, sp, MAXSTEPS>>, <<FA, sp, APOLOGY>>}
             THEN memory' = memory
             ELSE /\ memory'.count = memory.count + 1
                  /\ memory'.last.success
                  /\ memory'.last.tool_name = TerminalTag(ret'.via)
                  /\ Records(memory'.last, ret'.result)]_vars

C5_Witness ==
    /\ pc = "returned"
    /\ ret.via = "llm_direct_analysis"
    /\ memory.count = 2
    /\ memory.last.tool_name = "llm_direct_analysis"
    /\ memory.last.result = ret.result

\* a stripped executor result that is non-empty text and starts with none of
\* the three markers
IsUnmarkedText(r) ==
    /\ r # NotStr
    /\ r # <<>>
    /\ ~startswith(r, FA)
    /\ ~startswith(r, FPR)
    /\ ~startswith(r, ERR)

\* C6: an executor result that is non-empty text and starts with none of the
\* three markers ends the run with "FINAL_ANSWER: " + text; no lifeline is
\* consumed and the planner is not called again
C6_UnmarkedTextIsFinal ==
    [][(pc = "exec" /\ IsUnmarkedText(result'))
          => /\ pc' = "returned"
             /\ ret'.status = "done"
             /\ ret'.result = <<FA, sp>> \o result'
             /\ lifelines_left' = lifelines_left]_vars

\* the answers the no-tools path can form from a text of the LLM backend
LLMAnswers ==
    { IF startswith(strip(t), FA) THEN strip(t) ELSE <<FA, sp>> \o strip(t) :
         t \in LLMTexts }

\* the iteration whose tool selection came out empty leaves the selection
\* through the no-tools path and returns without planner or sandbox
NoToolsIterationReturns ==
    /\ (pc = "while" /\ selected_tools' = "empty" /\ pc' # pc)
          => pc' = "no_tools"
    /\ pc = "no_tools"
          => /\ pc' = "returned"
             /\ plannerCalls' = plannerCalls
             /\ sandboxCalls' = sandboxCalls

\* C7 as stated: an empty tool selection makes the iteration return, without
\* planner or sandbox, an answer produced by the LLM backend
C7_NoToolsAnswerFromLLM ==
    [][/\ NoToolsIterationReturns
       /\ pc = "no_tools"
             => /\ llm' = "ok"
                /\ ret'.result \in LLMAnswers]_vars

\* C7: an empty tool selection makes the iteration return without planner or
\* sandbox: with the answer of the LLM backend and status done when the
\* backend answers, with the fixed apology and status error when it raises
C7_NoToolsReturns ==
    [][/\ NoToolsIterationReturns
       /\ pc = "no_tools"
             => \/ /\ llm' = "ok"
                   /\ ret'.status = "done"
                   /\ ret'.result \in LLMAnswers
                \/ /\ llm' = "raise"
                   /\ ret'.status = "error"
                   /\ ret'.result = <<FA, sp, APOLOGY>>]_vars

C7_Witness ==
    /\ pc = "returned"
    /\ selected_tools = "empty"
    /\ step >= 1
    /\ plannerCalls >= 1
    /\ llm = "raise"
    /\ ret.status = "error"

(***************************************************************************)
(* Properties of a user turn                                               *)
(***************************************************************************)
\* the stages the current turn has gone through, in order
Happened(e) == \E i \in DOMAIN events : events[i] = e

Before(e1, e2) ==
    \A j \in DOMAIN events :
       events[j] = e2 => \E i \in 1..(j - 1) : events[i] = e1

\* C8: after the inbound check has blocked a query, the turn is rejected and
\* nothing else runs in it: no historical pre-check, no task loop, no
\* outbound check, no Semantic Memory insert
C8_BlockedQueryStopsTurn ==
    /\ []((turns > 0 /\ query_check.blocked)
            => /\ query_check = check_query(user_input)
               /\ mpc = "input"
               /\ pc = "idle"
               /\ events = <<"inbound", "rejected">>
               /\ printed = <<query_check.reason>>
               /\ result_check = NoCheck
               /\ plannerCalls = 0
               /\ sandboxCalls = 0
               /\ llmCalls = 0)
    /\ [][(turns' = turns + 1 /\ query_check'.blocked) => store' = store]_vars

C8_Witness ==
    /\ turns > 0
    /\ query_check.blocked
    /\ query_check = check_query(user_input)
    /\ query_check.reason = "Command injection pattern detected in query"
    /\ events = <<"inbound", "rejected">>

\* texts in which each outbound heuristic fires, alone and all together
OutboundTexts ==
    { <<w, sp, x, sp, w>> :
         x \in {BAN, PROF, SSN, CARD, EMAIL, PHONE, SQL, CMD, AMP, BADURL,
                GOODURL, PATH, ENC, SCRIPT, BIG} }
       \cup { <<BAN, sp, PROF, sp, CARD, sp, SQL, sp, CMD, sp, BADURL, sp, PATH,
               sp, BIG, sp, ENC, sp, SCRIPT>> }

\* C9: the outbound check reports blocked = FALSE whatever the text holds,
\* and what the caller prints is the sanitized_content of that check.  The
\* first conjunct speaks of check_result alone and is evaluated in the
\* initial states; the second follows the answers that reach the gate
C9_OutboundNeverBlocks ==
    /\ turns = 0
          => \A t \in OutboundTexts :
                ~check_result(t).blocked /\ check_result(t).passed
    /\ Happened("outbound")
          => /\ result_check = check_result(final_answer_text)
             /\ ~result_check.blocked
             /\ result_check.passed
             /\ result_check.reason = NoReason
             /\ Happened("print")
             /\ printed = result_check.sanitized_content

C9_Witness ==
    /\ Happened("print")
    /\ Contains(final_answer_text, SCRIPT)
    /\ Contains(final_answer_text, PATH)
    /\ Len(result_check.warnings) >= 3
    /\ ~result_check.blocked
    /\ printed = result_check.sanitized_content
    /\ printed # final_answer_text

\* C10 as stated: the exchange is inserted into Semantic Memory only after
\* the outbound check has been applied to the answer
C10_GateBeforeInsert == Before("outbound", "insert")

\* C10: in a turn that produces a terminal answer, on the task-loop path and
\* on the history path alike, index_conversation is called with the original
\* query and the answer as produced, and the outbound check is applied after
\* it, to what is printed only
C10_InsertBeforeGate ==
    /\ [](Before("insert", "outbound"))
    /\ [][mpc = "index"
             => /\ Happened("insert")'
                /\ ~Happened("outbound")'
                /\ store' \in {store,
                               Append(store,
                                      [user_query |-> original_user_input,
                                       final_answer |-> final_answer_text])}]_vars

C10_Witness ==
    /\ Happened("loop")
    /\ Happened("print")
    /\ Len(store) > 0
    /\ store[Len(store)] = [user_query |-> original_user_input,
                            final_answer |-> final_answer_text]
    /\ printed = check_result(final_answer_text).sanitized_content
    /\ printed # store[Len(store)].final_answer

MaxInserts == 2
MaxRestarts == 2

\* np.zeros(768): the dimension of the fallback vector
ZeroDim == 768
\* the lengths result.json()["embedding"] can have
EmbeddingDims == {ZeroDim, 384}

ntotal(ix) == Len(ix.vecs)

\* get_embedding: the vector of the text, or the zero vector when the
\* request fails; vec 0 is the zero vector
get_embedding(conv, ok, d) ==
    IF ok THEN [dim |-> d, vec |-> conv] ELSE [dim |-> ZeroDim, vec |-> 0]

\* faiss.IndexFlatL2(dim) when self.index is None
IndexFor(ix, emb) ==
    IF ix.present THEN ix ELSE [present |-> TRUE, dim |-> emb.dim, vecs |-> <<>>]

metadata_entry(conv, position) ==
    [conv |-> conv, user_query |-> <<w>>, final_answer |-> <<w>>,
     index_position |-> position]

\* index_conversation returns: the except clause at its end, or the normal end
InsertReturns(status) ==
    /\ ipc' = "ready"
    /\ ins' = [status EXCEPT !.returned = TRUE]
    /\ acked' = IF status.appended
                THEN Append(acked, [conv |-> status.conv, saved |-> status.saved])
                ELSE acked

\* a call of index_conversation starts
InsertBegin ==
    /\ ipc = "ready"
    /\ inserts < MaxInserts
    /\ inserts' = inserts + 1
    /\ ins' = [NoInsert EXCEPT !.conv = inserts']
    /\ ipc' = "embed"
    /\ UNCHANGED <<index, metadata, index_file, metadata_file, embedding,
                   restarts, acked, load_raised, search_ret>>
    /\ UNCHANGED <<cfgVars, mainVars, loopVars, hist, procs, gate>>

\* embedding = get_embedding(searchable_text)
Embed ==
    /\ ipc = "embed"
    /\ \E ok \in BOOLEAN, d \in EmbeddingDims :
          /\ embedding' = get_embedding(ins.conv, ok, d)
          /\ ins' = [ins EXCEPT !.embedded = ok]
    /\ ipc' = "add"
    /\ UNCHANGED <<index, metadata, index_file, metadata_file, inserts,
                   restarts, acked, load_raised, search_ret>>
    /\ UNCHANGED <<cfgVars, mainVars, loopVars, hist, procs, gate>>

\* the index is created if there is none, and index.add is called; add
\* raises on a vector of another dimension, or when faiss fails
AddToIndex ==
    /\ ipc = "add"
    /\ \E faiss_ok \in BOOLEAN :
          LET ix == IndexFor(index, embedding)
          IN  IF ix.dim # embedding.dim
              THEN /\ index' = ix
                   /\ InsertReturns([ins EXCEPT !.add_error = "dimension"])
              ELSE IF ~faiss_ok
              THEN /\ index' = ix
                   /\ InsertReturns([ins EXCEPT !.add_error = "faiss"])
              ELSE /\ index' = [ix EXCEPT !.vecs = Append(@, embedding.vec)]
                   /\ ipc' = "append"
                   /\ UNCHANGED <<ins, acked>>
    /\ UNCHANGED <<metadata, index_file, metadata_file, embedding, inserts,
                   restarts, load_raised, search_ret>>
    /\ UNCHANGED <<cfgVars, mainVars, loopVars, hist, procs, gate>>

\* self.metadata.append(metadata_entry)
AppendMetadata ==
    /\ ipc = "append"
    /\ metadata' = Append(metadata, metadata_entry(ins.conv, Len(metadata)))
    /\ ins' = [ins EXCEPT !.appended = TRUE]
    /\ ipc' = "save"
    /\ UNCHANGED <<index, index_file, metadata_file, embedding, inserts,
                   restarts, acked, load_raised, search_ret>>
    /\ UNCHANGED <<cfgVars, mainVars, loopVars, hist, procs, gate>>

\* a file is opened for writing, which empties it, and written; either call
\* can raise, and save_index catches what is raised
WriteIndexOpen ==
    /\ ipc = "save"
    /\ \E ok \in BOOLEAN :
          IF ok
          THEN /\ index_file' = [state |-> "partial", content |-> NoIndex]
               /\ ipc' = "writing_index"
               /\ UNCHANGED <<ins, acked>>
          ELSE /\ index_file' = index_file
               /\ InsertReturns(ins)
    /\ UNCHANGED <<index, metadata, metadata_file, embedding, inserts,
                   restarts, load_raised, search_ret>>
    /\ UNCHANGED <<cfgVars, mainVars, loopVars, hist, procs, gate>>

WriteIndexDone ==
    /\ ipc = "writing_index"
    /\ \E ok \in BOOLEAN :
          IF ok
          THEN /\ index_file' = [state |-> "ok", content |-> index]
               /\ ipc' = "save_meta"
               /\ UNCHANGED <<ins, acked>>
          ELSE /\ index_file' = index_file
               /\ InsertReturns(ins)
    /\ UNCHANGED <<index, metadata, metadata_file, embedding, inserts,
                   restarts, load_raised, search_ret>>
    /\ UNCHANGED <<cfgVars, mainVars, loopVars, hist, procs, gate>>

WriteMetadataOpen ==
    /\ ipc = "save_meta"
    /\ \E ok \in BOOLEAN :
          IF ok
          THEN /\ metadata_file' = [state |-> "partial", content |-> <<>>]
               /\ ipc' = "writing_meta"
               /\ UNCHANGED <<ins, acked>>
          ELSE /\ metadata_file' = metadata_file
               /\ InsertReturns(ins)
    /\ UNCHANGED <<index, metadata, index_file, embedding, inserts,
                   restarts, load_raised, search_ret>>
    /\ UNCHANGED <<cfgVars, mainVars, loopVars, hist, procs, gate>>

WriteMetadataDone ==
    /\ ipc = "writing_meta"
    /\ \E ok \in BOOLEAN :
          IF ok
          THEN /\ metadata_file' = [state |-> "ok", content |-> metadata]
               /\ InsertReturns([ins EXCEPT !.saved = TRUE])
          ELSE /\ metadata_file' = metadata_file
               /\ InsertReturns(ins)
    /\ UNCHANGED <<index, metadata, index_file, embedding, inserts,
                   restarts, load_raised, search_ret>>
    /\ UNCHANGED <<cfgVars, mainVars, loopVars, hist, procs, gate>>

\* the process stops at any point, an insert in flight included; what it held
\* in memory is gone, the files stay as they are
Crash ==
    /\ ipc # "down"
    /\ restarts < MaxRestarts
    /\ restarts' = restarts + 1
    /\ ipc' = "down"
    /\ index' = NoIndex
    /\ metadata' = <<>>
    /\ embedding' = NoEmbedding
    /\ UNCHANGED <<index_file, metadata_file, inserts, ins, acked, load_raised,
                   search_ret>>
    /\ UNCHANGED <<cfgVars, mainVars, loopVars, hist, procs, gate>>

\* what the except clause of load_index leaves
LoadFailed_partial(ix, md) == [index |-> ix, metadata |-> <<>>]

LoadFailed(ix, md) == [index |-> NoIndex, metadata |-> <<>>]

\* ConversationIndexer(): load_index.  A read raises on a file that was left
\* partly written, and can raise on any file (io names the file it fails
\* on); raised tells which read raised and on what kind of file
load_index(io) ==
    LET index_raises ==
            index_file.state = "partial"
               \/ (index_file.state = "ok" /\ io = "index")
        ix == IF index_file.state = "ok" THEN index_file.content ELSE NoIndex
        metadata_raises ==
            metadata_file.state = "partial"
               \/ (metadata_file.state = "ok" /\ io = "metadata")
        md == IF metadata_file.state = "ok" THEN metadata_file.content ELSE <<>>
    IN  IF index_raises
        THEN [raised |-> IF index_file.state = "partial"
                         THEN "index_partial" ELSE "index_io",
              mem |-> LoadFailed(NoIndex, <<>>)]
        ELSE IF metadata_raises
        THEN [raised |-> IF metadata_file.state = "partial"
                         THEN "metadata_partial" ELSE "metadata_io",
              mem |-> LoadFailed(ix, <<>>)]
        ELSE [raised |-> "none", mem |-> [index |-> ix, metadata |-> md]]

Load ==
    /\ ipc = "down"
    /\ \E io \in {"none", "index", "metadata"} :
          LET loaded == load_index(io)
          IN  /\ index' = loaded.mem.index
              /\ metadata' = loaded.mem.metadata
              /\ load_raised' = loaded.raised
    /\ ipc' = "ready"
    /\ UNCHANGED <<index_file, metadata_file, embedding, inserts, restarts,
                   ins, acked, search_ret>>
    /\ UNCHANGED <<cfgVars, mainVars, loopVars, hist, procs, gate>>

\* min(top_k, self.index.ntotal)
min_top_k_unclamped(k, n) == k

min_top_k(k, n) == IF k < n THEN k ELSE n

\* indices[0] of index.search(query_embedding, k): the k positions nearest to
\* the query, and 0 (faiss gives -1, one before the first position) in the
\* places for which the index has no vector
Nearest(ix, k) == [i \in 1..k |-> IF i <= ntotal(ix) THEN i ELSE 0]

\* results of the for loop over indices[0]: the entries at positions the
\* metadata has; self.metadata[-1] is the last entry
RECURSIVE Matched(_, _)
Matched(positions, md) ==
    IF positions = <<>> THEN <<>>
    ELSE LET idx == Head(positions)
         IN  (IF idx <= Len(md) /\ md # <<>>
              THEN <<md[IF idx = 0 THEN Len(md) ELSE idx]>>
              ELSE <<>>)
                \o Matched(Tail(positions), md)

\* the top_k values search is called with
TopKs == {1, TopK}

\* ConversationIndexer.search; failure names what goes wrong in the call.
\* index.search raises on k = 0 or returns no position, according to the
\* faiss release: the result is the empty list either way
search(ix, md, failure, d, top_k) ==
    IF ~ix.present \/ ntotal(ix) = 0 THEN <<>>
    ELSE LET query_embedding == get_embedding(0, failure # "embedding", d)
         IN  IF failure \in {"lookup", "metadata"}
                   \/ query_embedding.dim # ix.dim
             THEN <<>>
             ELSE Matched(Nearest(ix, min_top_k(top_k, ntotal(ix))), md)

Search ==
    /\ ipc = "ready"
    /\ \E failure \in {"none", "embedding", "lookup", "metadata"},
          d \in EmbeddingDims, top_k \in TopKs :
          search_ret' = [failure |-> failure,
                         top_k |-> top_k,
                         results |-> search(index, metadata, failure, d, top_k),
                         called |-> TRUE]
    /\ UNCHANGED <<ipc, index, metadata, index_file, metadata_file, embedding,
                   inserts, restarts, ins, acked, load_raised>>
    /\ UNCHANGED <<cfgVars, mainVars, loopVars, hist, procs, gate>>

\* no user turn and no run of the loop is under way
TurnIdle ==
    /\ max_steps = 1
    /\ max_lifelines = 0
    /\ mpc = "input"
    /\ turns = 0
    /\ user_input = NoneText
    /\ original_user_input = NoneText
    /\ query_check = NoCheck
    /\ historical_context = NoneText
    /\ final_answer_text = NoneText
    /\ result_check = NoCheck
    /\ printed = NoneText
    /\ events = <<>>
    /\ store = <<>>
    /\ indexed = FALSE
    /\ pc = "idle"
    /\ step = -1
    /\ lifelines_left = 0
    /\ further_processing_count = 0
    /\ user_input_override = NoneText
    /\ final_answer = NoneText
    /\ memory = NoMemory
    /\ ret = NoRet
    /\ selected_tools = "unset"
    /\ result = NoneText
    /\ llm = "none"
    /\ plannerCalls = 0
    /\ sandboxCalls = 0
    /\ llmCalls = 0

InitMem ==
    /\ TurnIdle
    /\ MemoryIdle

NextMem ==
    \/ Load
    \/ InsertBegin
    \/ Embed
    \/ AddToIndex
    \/ AppendMetadata
    \/ WriteIndexOpen
    \/ WriteIndexDone
    \/ WriteMetadataOpen
    \/ WriteMetadataDone
    \/ Search
    \/ Crash

MemSpec == InitMem /\ [][NextMem]_vars

(***************************************************************************)
(* Properties of the Semantic Memory                                       *)
(***************************************************************************)
\* an index_conversation call returns in this step
InsertHasReturned == ~ins.returned /\ ins'.returned

\* the process comes up again and load_index has run
Reloaded == ipc = "down" /\ ipc' = "ready" /\ restarts > 0

Holds(md, conv) == \E i \in DOMAIN md : md[i].conv = conv

\* the index and the metadata hold the same conversations at the same
\* positions (a zero vector stands for the conversation whose embedding failed)
Consistent(ix, md) ==
    /\ Len(md) = ntotal(ix)
    /\ \A i \in DOMAIN md :
          /\ ix.vecs[i] \in {md[i].conv, 0}
          /\ md[i].index_position = i - 1

\* C12: each time an insert has returned, whatever loads and inserts came
\* before and whichever of them failed, len(metadata) equals index.ntotal
C12_CountsAgreeAfterInsert ==
    [][InsertHasReturned => Len(metadata') = ntotal(index')]_vars

\* C13: when the process restarts after an insert that appended its record
\* has returned, and the reload reads both files without error, the memory
\* has len(metadata) equal to index.ntotal and holds that record
C13_ReloadHoldsLastInsert ==
    [][(Reloaded /\ ins.returned /\ ins.appended /\ load_raised' = "none")
          => /\ Len(metadata') = ntotal(index')
             /\ Holds(metadata', ins.conv)]_vars

\* C14: when the process crashes in the middle of an insert, the memory
\* reloaded after the restart has index and metadata consistent: same count,
\* same conversations at the same positions
C14_CrashLeavesFilesConsistent ==
    [][(Reloaded /\ ins.conv > 0 /\ ~ins.returned)
          => Consistent(index', metadata')]_vars

\* C15: after an interruption, every record whose insert had returned with
\* both files written is in the reloaded memory, unless a read of a sound
\* file failed during the reload
C15_ReturnedInsertsSurvive ==
    [][(Reloaded /\ load_raised' \notin {"index_io", "metadata_io"})
          => \A i \in DOMAIN acked :
                acked[i].saved => Holds(metadata', acked[i].conv)]_vars

\* C16: a record that has been written to the metadata file is never removed
\* from it nor changed in it by a later operation
C16_PersistedRecordsStay ==
    metadata_file.state = "ok"
       => \A i \in DOMAIN acked :
             acked[i].saved => Holds(metadata_file.content, acked[i].conv)


\* C17: the semantic memory is not deduplicated.  Every answered turn makes
\* exactly one insert attempt; a successful attempt puts one new record, the
\* turn's original query with the answer text, at the end of the store, also
\* when the store already holds a record of the same query; nothing else ever
\* changes the store
C17_OneRecordPerAnsweredTurn ==
    /\ [](Cardinality({i \in DOMAIN events : events[i] = "insert"}) <= 1)
    /\ [](Happened("print") /\ ~query_check.blocked => Happened("insert"))
    /\ [][store' # store => mpc = "index"]_vars
    /\ [][mpc = "index"
            => /\ indexed' => /\ Len(store') = Len(store) + 1
                              /\ SubSeq(store', 1, Len(store)) = store
                              /\ store'[Len(store')].user_query = original_user_input
                              /\ store'[Len(store')].final_answer = final_answer_text
               /\ ~indexed' => store' = store]_vars

C17_Witness ==
    /\ indexed
    /\ Len(store) = 2
    /\ store[1].user_query = store[2].user_query
    /\ store[2].user_query = original_user_input
    /\ Happened("print")


\* C18: an insert whose embedding request failed is not aborted: the zero
\* vector goes into the index and the record into the metadata, whatever the
\* dimension of the index that is there (a failure of faiss itself set aside)
C18_ZeroVectorInsertGoesThrough ==
    [][(InsertHasReturned /\ ~ins'.embedded /\ ins'.add_error # "faiss")
          => /\ ins'.appended
             /\ ntotal(index') > 0
             /\ index'.vecs[ntotal(index')] = 0
             /\ Holds(metadata', ins'.conv)]_vars


\* C19: when a read raises while the persisted index or metadata is loaded,
\* the process goes on with an empty memory, no index and no metadata; an
\* index that was read before the metadata read raised is not kept
C19_FailedLoadStartsEmpty ==
    [][(ipc = "down" /\ load_raised' # "none")
          => /\ ipc' = "ready"
             /\ index' = NoIndex
             /\ metadata' = <<>>]_vars

C19_Witness ==
    /\ ipc = "ready"
    /\ load_raised \in {"metadata_io", "metadata_partial"}
    /\ index_file.state = "ok"
    /\ ntotal(index_file.content) > 0
    /\ index = NoIndex
    /\ metadata = <<>>


\* C20: a search during which something failed, the embedding request, the
\* index lookup or the metadata access, has returned the empty list
C20_FailedSearchIsEmpty ==
    (search_ret.called /\ search_ret.failure # "none")
       => search_ret.results = <<>>


\* a call of search has returned; the memory is what it searched
SearchReturned ==
    /\ ipc = "ready"
    /\ ipc' = "ready"
    /\ search_ret'.called
    /\ UNCHANGED <<index, metadata, inserts, restarts>>

\* C21: search returns at most min(k, number of indexed records) results,
\* for every k and every outcome of the call, and the empty list when the
\* memory holds no index or an index without records
C21_SearchIsClamped ==
    [][SearchReturned
          => /\ Len(search_ret'.results)
                   <= (IF search_ret'.top_k < ntotal(index)
                       THEN search_ret'.top_k ELSE ntotal(index))
             /\ (~index.present \/ ntotal(index) = 0)
                   => search_ret'.results = <<>>]_vars

C21_Witness ==
    /\ search_ret.called
    /\ search_ret.top_k = 1
    /\ ntotal(index) = 2
    /\ Len(metadata) = 2
    /\ Len(search_ret.results) = 1


(***************************************************************************)
(* historical_check.py: check_historical_conversations, step by step, over *)
(* a memory that earlier turns have filled                                 *)
(***************************************************************************)
MaxNeighbours == 2

\* the answers a turn hands to index_conversation: an answer of the loop or
\* of the pre-check, and the texts the loop ends a failed run with
StoredAnswers == { <<w>>, <<MAXSTEPS>>, <<EXECFAILED>>, <<APOLOGY>> }

\* the queries of the turns: one the memory holds a record of, one it does not
HistQueries == { <<w>>, <<w, sp, w>> }

RECURSIVE Memories(_)
Memories(n) ==
    IF n = 0 THEN { <<>> }
    ELSE Memories(n - 1)
            \cup { Append(md, [conv |-> Len(md) + 1,
                               user_query |-> <<w>>,
                               final_answer |-> a,
                               index_position |-> Len(md)]) :
                      md \in { m \in Memories(n - 1) : Len(m) = n - 1 },
                      a \in StoredAnswers }

\* the index that goes with a metadata list: one vector per record
IndexOf(md) ==
    IF md = <<>> THEN NoIndex
    ELSE [present |-> TRUE, dim |-> ZeroDim, vecs |-> [i \in 1..Len(md) |-> i]]

\* historical_result of call_tool('search_historical_conversations'): the
\* server searches with top_k = 5 and filters; transport is "lost" when the
\* call gives nothing that can be parsed
HcSearch ==
    /\ hist.hpc = "idle"
    /\ \E failure \in {"none", "embedding", "lookup", "metadata"},
          d \in EmbeddingDims, transport \in {"ok", "lost"},
          q \in HistQueries :
          LET results == search(index, metadata, failure, d, TopK)
          IN  hist' = [hist EXCEPT
                         !.hpc = "searched",
                         !.query = q,
                         !.found = results,
                         !.data = IF transport = "ok"
                                  THEN formatted_results(results) ELSE <<>>]
    /\ UNCHANGED <<cfgVars, mainVars, loopVars, procs, gate>>
    /\ UNCHANGED <<ipc, index, metadata, index_file, metadata_file, embedding,
                   inserts, restarts, ins, acked, load_raised, search_ret>>

\* if not context_items
no_context_items_never(items) == FALSE

no_context_items(items) == items = <<>>

\* context_items; without any the function returns {"can_answer": False}
HcContext ==
    /\ hist.hpc = "searched"
    /\ LET items == ContextItems(hist.data)
       IN  hist' = IF no_context_items(items)
                   THEN [hist EXCEPT !.hpc = "returned", !.items = items,
                                     !.returned = NoDisposition]
                   ELSE [hist EXCEPT !.hpc = "prompt", !.items = items]
    /\ UNCHANGED <<cfgVars, mainVars, loopVars, procs, gate>>
    /\ UNCHANGED <<ipc, index, metadata, index_file, metadata_file, embedding,
                   inserts, restarts, ins, acked, load_raised, search_ret>>

\* what generate_text returns to the pre-check, also with white space
\* around it, with the marker further in, and with an address in it
HistJudgeOutcomes ==
    JudgeOutcomes
       \cup { <<nl, FA, sp, EMAIL, nl>>, <<sp, HAS_CONTEXT, sp, w>>,
               <<w, sp, FA, sp, w>> }

\* llm_response = await model.generate_text(decision_prompt)
HcJudge ==
    /\ hist.hpc = "prompt"
    /\ \E out \in HistJudgeOutcomes :
          hist' = [hist EXCEPT !.hpc = "judged", !.response = out,
                               !.judged = @ + 1]
    /\ UNCHANGED <<cfgVars, mainVars, loopVars, procs, gate>>
    /\ UNCHANGED <<ipc, index, metadata, index_file, metadata_file, embedding,
                   inserts, restarts, ins, acked, load_raised, search_ret>>

\* the branches on llm_response, and the except clause of the function
HcDecide ==
    /\ hist.hpc = "judged"
    /\ hist' = [hist EXCEPT !.hpc = "returned",
                            !.returned = Disposition(hist.data, hist.response)]
    /\ UNCHANGED <<cfgVars, mainVars, loopVars, procs, gate>>
    /\ UNCHANGED <<ipc, index, metadata, index_file, metadata_file, embedding,
                   inserts, restarts, ins, acked, load_raised, search_ret>>

InitHist ==
    /\ TurnIdle
    /\ ipc = "ready"
    /\ metadata \in Memories(MaxNeighbours)
    /\ index = IndexOf(metadata)
    /\ index_file = IF metadata = <<>> THEN AbsentIndexFile
                    ELSE [state |-> "ok", content |-> index]
    /\ metadata_file = IF metadata = <<>> THEN AbsentMetadataFile
                       ELSE [state |-> "ok", content |-> metadata]
    /\ embedding = NoEmbedding
    /\ inserts = 0
    /\ restarts = 0
    /\ ins = NoInsert
    /\ acked = <<>>
    /\ load_raised = "none"
    /\ search_ret = NoSearch
    /\ hist = NoHist
    /\ procs = NoProcs
    /\ gate = NoGate

NextHist ==
    \/ HcSearch
    \/ HcContext
    \/ HcJudge
    \/ HcDecide

HistSpec == InitHist /\ [][NextHist]_vars


(***************************************************************************)
(* Properties of the Historical Pre-Check                                  *)
(***************************************************************************)
\* the pre-check has built its context items
ContextBuilt == hist.hpc \in {"prompt", "judged", "returned"}

\* C22: the context put before the judging LLM holds no exchange the loop
\* ended as a failure: not the max-steps answer, not the execution-failed
\* answer, not the apology of the error status
C22_NoFailedExchangeInContext ==
    ContextBuilt
       => /\ ~Contains(hist.items, MAXSTEPS)
          /\ ~Contains(hist.items, EXECFAILED)
          /\ ~Contains(hist.items, APOLOGY)


\* the search is over and no record it handed over is usable: there is none,
\* or each carries an error marker
NoneSurvives ==
    /\ hist.hpc # "idle"
    /\ \A i \in DOMAIN hist.data : IsErrorAnswer(hist.data[i].final_answer)

\* C23: when no neighbour is left after the error filter, or none was found,
\* the pre-check returns no-context and the judging LLM is never called
C23_NoNeighbourNoJudgment ==
    NoneSurvives
       => /\ hist.judged = 0
          /\ hist.hpc \in {"searched", "returned"}
          /\ hist.hpc = "returned"
                => /\ ~hist.returned.can_answer
                   /\ ~hist.returned.has_context

C23_Witness ==
    /\ hist.hpc = "returned"
    /\ hist.found # <<>>
    /\ hist.data = <<>>
    /\ hist.judged = 0
    /\ ~hist.returned.can_answer


\* the three dispositions, read off the returned dict as main() reads it
Kind(d) ==
    IF d.can_answer THEN "DIRECT_ANSWER"
    ELSE IF d.has_context THEN "CONTEXT_AVAILABLE"
    ELSE "NO_CONTEXT"

\* the disposition a response stands for, once it is taken as text r
KindOf(r) ==
    IF startswith(r, FA) THEN "DIRECT_ANSWER"
    ELSE IF startswith(r, HAS_CONTEXT) /\ ~Contains(r, NEGATION)
    THEN "CONTEXT_AVAILABLE"
    ELSE "NO_CONTEXT"

\* the judging LLM was asked and the pre-check has returned
Judged == hist.hpc = "returned" /\ hist.judged = 1

ExactMatchFound ==
    \E i \in DOMAIN hist.data :
       /\ hist.data[i].user_query = hist.query
       /\ ~IsErrorAnswer(hist.data[i].final_answer)

\* C25: a query that matches the user_query of a stored record exactly, the
\* record's answer being no error marker and the record among the neighbours
\* found, never gets no-context: the pre-check returns the direct answer or
\* the context
C25_ExactMatchIsNeverNoContext ==
    (hist.hpc = "returned" /\ ExactMatchFound /\ hist.response # LLMRaise)
       => Kind(hist.returned) # "NO_CONTEXT"


\* C26: no step of the pre-check changes the semantic memory, in the process
\* or in its files, and none runs check_query or check_result: no verdict
\* changes, no gate event is logged, and a direct answer is the LLM's
\* stripped response and not a sanitized form of it
C26_PreCheckOnlyReads ==
    /\ [][hist' # hist
            => UNCHANGED <<index, metadata, index_file, metadata_file, store,
                           query_check, result_check, events>>]_vars
    /\ [](hist.returned.can_answer
             => hist.returned.answer = strip(hist.response))

C26_Witness ==
    /\ hist.hpc = "returned"
    /\ hist.returned.can_answer
    /\ Contains(hist.returned.answer, EMAIL)
    /\ Len(metadata) = 2
    /\ metadata_file.content = metadata


(***************************************************************************)
(* conversation_indexer.py in several processes over the same two files:   *)
(* every process has its own ConversationIndexer; no read or write fails   *)
(***************************************************************************)
\* the conversation a session indexes
ConvOf(p) == IF p = "session1" THEN 1 ELSE 2

\* load_index, first read: faiss.read_index(INDEX_FILE) if the file exists
PLoadIndex(p) ==
    /\ procs[p].ppc = "down"
    /\ procs' = [procs EXCEPT ![p] =
                   IF index_file.state = "partial"
                   THEN [@ EXCEPT !.ppc = "ready",
                                  !.index = LoadFailed(NoIndex, <<>>).index,
                                  !.metadata = LoadFailed(NoIndex, <<>>).metadata]
                   ELSE [@ EXCEPT !.ppc = "load_metadata",
                                  !.index = IF index_file.state = "ok"
                                            THEN index_file.content
                                            ELSE NoIndex]]
    /\ UNCHANGED <<cfgVars, mainVars, loopVars, hist, gate>>
    /\ UNCHANGED <<ipc, index, metadata, index_file, metadata_file, embedding,
                   inserts, restarts, ins, acked, load_raised, search_ret>>

\* load_index, second read: json.load of METADATA_FILE if the file exists
PLoadMetadata(p) ==
    /\ procs[p].ppc = "load_metadata"
    /\ procs' = [procs EXCEPT ![p] =
                   IF metadata_file.state = "partial"
                   THEN [@ EXCEPT !.ppc = "ready",
                                  !.index = LoadFailed(@, <<>>).index,
                                  !.metadata = LoadFailed(NoIndex, <<>>).metadata]
                   ELSE [@ EXCEPT !.ppc = "ready",
                                  !.metadata = IF metadata_file.state = "ok"
                                               THEN metadata_file.content
                                               ELSE <<>>]]
    /\ UNCHANGED <<cfgVars, mainVars, loopVars, hist, gate>>
    /\ UNCHANGED <<ipc, index, metadata, index_file, metadata_file, embedding,
                   inserts, restarts, ins, acked, load_raised, search_ret>>

\* index_conversation up to save_index: the vector is added and the entry
\* appended in the memory of the process
PInsert(p) ==
    /\ p \in Sessions
    /\ procs[p].ppc = "ready"
    /\ LET emb == get_embedding(ConvOf(p), TRUE, ZeroDim)
           ix == IndexFor(procs[p].index, emb)
       IN  procs' = [procs EXCEPT ![p] =
                       [@ EXCEPT !.ppc = "save",
                                 !.index = [ix EXCEPT !.vecs = Append(@, emb.vec)],
                                 !.metadata =
                                    Append(@, metadata_entry(ConvOf(p), Len(@)))]]
    /\ UNCHANGED <<cfgVars, mainVars, loopVars, hist, gate>>
    /\ UNCHANGED <<ipc, index, metadata, index_file, metadata_file, embedding,
                   inserts, restarts, ins, acked, load_raised, search_ret>>

\* save_index: faiss.write_index opens the file, then has written it
PWriteIndexOpen(p) ==
    /\ procs[p].ppc = "save"
    /\ index_file' = [state |-> "partial", content |-> NoIndex]
    /\ procs' = [procs EXCEPT ![p].ppc = "writing_index"]
    /\ UNCHANGED <<cfgVars, mainVars, loopVars, hist, gate>>
    /\ UNCHANGED <<ipc, index, metadata, metadata_file, embedding,
                   inserts, restarts, ins, acked, load_raised, search_ret>>

PWriteIndexDone(p) ==
    /\ procs[p].ppc = "writing_index"
    /\ index_file' = [state |-> "ok", content |-> procs[p].index]
    /\ procs' = [procs EXCEPT ![p].ppc = "save_meta"]
    /\ UNCHANGED <<cfgVars, mainVars, loopVars, hist, gate>>
    /\ UNCHANGED <<ipc, index, metadata, metadata_file, embedding,
                   inserts, restarts, ins, acked, load_raised, search_ret>>

\* save_index: open(METADATA_FILE, "w"), then json.dump has written it
PWriteMetadataOpen(p) ==
    /\ procs[p].ppc = "save_meta"
    /\ metadata_file' = [state |-> "partial", content |-> <<>>]
    /\ procs' = [procs EXCEPT ![p].ppc = "writing_meta"]
    /\ UNCHANGED <<cfgVars, mainVars, loopVars, hist, gate>>
    /\ UNCHANGED <<ipc, index, metadata, index_file, embedding,
                   inserts, restarts, ins, acked, load_raised, search_ret>>

PWriteMetadataDone(p) ==
    /\ procs[p].ppc = "writing_meta"
    /\ metadata_file' = [state |-> "ok", content |-> procs[p].metadata]
    /\ procs' = [procs EXCEPT ![p].ppc = "returned"]
    /\ UNCHANGED <<cfgVars, mainVars, loopVars, hist, gate>>
    /\ UNCHANGED <<ipc, index, metadata, index_file, embedding,
                   inserts, restarts, ins, acked, load_raised, search_ret>>

\* search in the memory server: what the call finds in its indexer
PSearch(p) ==
    /\ p = "server"
    /\ procs[p].ppc = "ready"
    /\ procs' = [procs EXCEPT ![p] =
                   [@ EXCEPT !.ppc = "searched",
                             !.seen = [called |-> TRUE,
                                       ntotal |-> ntotal(procs[p].index),
                                       len |-> Len(procs[p].metadata),
                                       results |-> search(procs[p].index,
                                                          procs[p].metadata,
                                                          "none", ZeroDim, TopK)]]]
    /\ UNCHANGED <<cfgVars, mainVars, loopVars, hist, gate>>
    /\ UNCHANGED <<ipc, index, metadata, index_file, metadata_file, embedding,
                   inserts, restarts, ins, acked, load_raised, search_ret>>

\* what earlier runs left in the files: nothing, or one conversation
PersistedBefore ==
    { <<>>, <<metadata_entry(3, 0)>> }

InitConc ==
    /\ TurnIdle
    /\ ipc = "down"
    /\ index = NoIndex
    /\ metadata = <<>>
    /\ \E md \in PersistedBefore :
          /\ metadata_file = IF md = <<>> THEN AbsentMetadataFile
                             ELSE [state |-> "ok", content |-> md]
          /\ index_file = IF md = <<>> THEN AbsentIndexFile
                          ELSE [state |-> "ok",
                                content |-> [present |-> TRUE, dim |-> ZeroDim,
                                             vecs |-> <<3>>]]
    /\ embedding = NoEmbedding
    /\ inserts = 0
    /\ restarts = 0
    /\ ins = NoInsert
    /\ acked = <<>>
    /\ load_raised = "none"
    /\ search_ret = NoSearch
    /\ hist = NoHist
    /\ procs = NoProcs
    /\ gate = NoGate

NextConc ==
    \/ \E p \in Procs : PLoadIndex(p)
    \/ \E p \in Procs : PLoadMetadata(p)
    \/ \E p \in Procs : PInsert(p)
    \/ \E p \in Procs : PWriteIndexOpen(p)
    \/ \E p \in Procs : PWriteIndexDone(p)
    \/ \E p \in Procs : PWriteMetadataOpen(p)
    \/ \E p \in Procs : PWriteMetadataDone(p)
    \/ \E p \in Procs : PSearch(p)

ConcSpec == InitConc /\ [][NextConc]_vars


(***************************************************************************)
(* Properties of the Semantic Memory under concurrent use                  *)
(***************************************************************************)
\* an insert is between its first mutation and its return
Inserting(p) ==
    procs[p].ppc \in {"save", "writing_index", "save_meta", "writing_meta"}

AllReturned == \A p \in Sessions : procs[p].ppc = "returned"

\* C27: inserts exclude each other: at most one is between its first mutation
\* and its return, and once the inserts of both sessions have returned the
\* memory holds both records, as many entries as vectors, each record at the
\* position of its own vector
C27_InsertsExcludeEachOther ==
    /\ ~(Inserting("session1") /\ Inserting("session2"))
    /\ AllReturned
          => /\ metadata_file.state = "ok"
             /\ index_file.state = "ok"
             /\ \A p \in Sessions : Holds(metadata_file.content, ConvOf(p))
             /\ Consistent(index_file.content, metadata_file.content)

\* C28: a search that runs while an insert is under way finds the memory as
\* it was before the insert or as it is after it: the index it searches has
\* as many vectors as the metadata has entries
C28_SearchSeesWholeInserts ==
    procs["server"].seen.called
       => procs["server"].seen.ntotal = procs["server"].seen.len


(***************************************************************************)
(* guardrail.py taken alone: check_query and check_result on any text, and *)
(* once more on what they return                                           *)
(***************************************************************************)
MaxGateLen == 2

GateLexemes ==
    { w, sp, nl, BAN, PROF, SSN, CARD, EMAIL, PHONE, SQL, CMD, AMP, BADURL,
      GOODURL, PATH, ENC, SCRIPT, BIG }

RECURSIVE TextsUpTo(_)
TextsUpTo(n) ==
    IF n = 0 THEN { <<>> }
    ELSE TextsUpTo(n - 1)
            \cup { Append(t, tok) :
                      t \in { u \in TextsUpTo(n - 1) : Len(u) = n - 1 },
                      tok \in GateLexemes }

GateTexts == TextsUpTo(MaxGateLen)

\* check_query(query)
GateCheckQuery ==
    /\ gate.gpc = "idle"
    /\ \E query \in GateTexts :
          gate' = [gate EXCEPT !.gpc = "checked", !.side = "inbound",
                               !.text = query, !.first = check_query(query)]
    /\ UNCHANGED <<cfgVars, mainVars, loopVars, hist, procs>>
    /\ UNCHANGED <<ipc, index, metadata, index_file, metadata_file, embedding,
                   inserts, restarts, ins, acked, load_raised, search_ret>>

\* check_result(result)
GateCheckResult ==
    /\ gate.gpc = "idle"
    /\ \E result_text \in GateTexts :
          gate' = [gate EXCEPT !.gpc = "checked", !.side = "outbound",
                               !.text = result_text,
                               !.first = check_result(result_text)]
    /\ UNCHANGED <<cfgVars, mainVars, loopVars, hist, procs>>
    /\ UNCHANGED <<ipc, index, metadata, index_file, metadata_file, embedding,
                   inserts, restarts, ins, acked, load_raised, search_ret>>

\* the same check on the sanitized_content it returned
GateCheckAgain ==
    /\ gate.gpc = "checked"
    /\ gate' = [gate EXCEPT
                  !.gpc = "rechecked",
                  !.second = IF gate.side = "inbound"
                             THEN check_query(gate.first.sanitized_content)
                             ELSE check_result(gate.first.sanitized_content)]
    /\ UNCHANGED <<cfgVars, mainVars, loopVars, hist, procs>>
    /\ UNCHANGED <<ipc, index, metadata, index_file, metadata_file, embedding,
                   inserts, restarts, ins, acked, load_raised, search_ret>>

InitGate ==
    /\ TurnIdle
    /\ MemoryIdle

NextGate ==
    \/ GateCheckQuery
    \/ GateCheckResult
    \/ GateCheckAgain

GateSpec == InitGate /\ [][NextGate]_vars

(***************************************************************************)
(* Properties of the Safety Gate                                           *)
(***************************************************************************)
\* one of the four blocking heuristics matches the text
InjectionIn(text) ==
    \/ _contains_sql_injection(text)
    \/ _contains_command_injection(text)
    \/ _contains_sensitive_paths(text)
    \/ _contains_script_injection(text)

InboundChecked == gate.gpc # "idle" /\ gate.side = "inbound"

\* C29: check_query blocks exactly the texts on which the SQL, command,
\* sensitive-path or script heuristic fires; banned words, profanity, PII,
\* unsafe URLs, length and encoding never block
C29_BlockedIffInjectionInText ==
    InboundChecked => (gate.first.blocked <=> InjectionIn(gate.text))


\* no banned word, no PII and no script pattern is in the text
NoMatchRemains(text) ==
    /\ ~_remove_banned_words(text).found
    /\ _detect_pii(text) = <<>>
    /\ ~_contains_script_injection(text)

\* C30: when the sanitized content of a verdict holds no banned word, no PII
\* and no script pattern, the same check on that content returns it unchanged
\* and raises no warning that the first check had not raised
C30_SecondCheckAddsNothing ==
    (gate.gpc = "rechecked" /\ NoMatchRemains(gate.first.sanitized_content))
       => /\ gate.second.sanitized_content = gate.first.sanitized_content
          /\ \A i \in DOMAIN gate.second.warnings :
                \E j \in DOMAIN gate.first.warnings :
                   gate.first.warnings[j] = gate.second.warnings[i]

\* the sensitive-path heuristic fires: the text that reaches heuristic 7,
\* after heuristics 1 to 6 have run, holds a sensitive path
PathHeuristicFires ==
    /\ gate.gpc # "idle"
    /\ _contains_sensitive_paths(
          IF gate.side = "inbound"
          THEN Q6(Q5(Q4(Q3(Q2(Q1(Start(gate.text))))))).sanitized
          ELSE R6(R5(R4(R3(R2(R1(Start(gate.text))))))).sanitized)

\* C37: when the sensitive-path heuristic fires, the verdict has no
\* sensitive path left in sanitized_content and a warning about the path in
\* warnings, on both boundaries; it is blocked on inbound and not on outbound
C37_PathIsRedactedAndWarned ==
    PathHeuristicFires
       => /\ ~_contains_sensitive_paths(gate.first.sanitized_content)
          /\ \E i \in DOMAIN gate.first.warnings :
                gate.first.warnings[i] \in
                   { <<"Sensitive file path detected in query">>,
                     <<"Sensitive file path detected in result">> }
          /\ gate.first.blocked <=> gate.side = "inbound"

\* the reason of the last blocking heuristic of check_query that fires on
\* the text, each heuristic seeing the text the ones before it left
LastBlockingReason(text) ==
    LET q3 == Q3(Q2(Q1(Start(text))))
        q4 == Q4(q3)
        q6 == Q6(Q5(q4))
        q9 == Q9(Q8(Q7(q6)))
    IN  IF _contains_script_injection(q9.sanitized)
        THEN "Script injection pattern detected in query"
        ELSE IF _contains_sensitive_paths(q6.sanitized)
        THEN "Sensitive file path detected in query"
        ELSE IF _contains_command_injection(q4.sanitized)
        THEN "Command injection pattern detected in query"
        ELSE IF _contains_sql_injection(q3.sanitized)
        THEN "SQL injection pattern detected in query"
        ELSE NoReason

\* passed = not blocked, and a reason is given exactly when blocked
WellFormed(verdict) ==
    /\ verdict.passed = ~verdict.blocked
    /\ verdict.reason # NoReason <=> verdict.blocked

\* C39: in every verdict of check_query and of check_result passed is the
\* negation of blocked and reason is set exactly when blocked is; the reason
\* of an inbound verdict is that of the last blocking heuristic that fired
C39_ReasonNamesLastBlockingHeuristic ==
    /\ gate.gpc # "idle" => WellFormed(gate.first)
    /\ gate.gpc = "rechecked" => WellFormed(gate.second)
    /\ InboundChecked => gate.first.reason = LastBlockingReason(gate.text)

\* an inbound text on which the SQL heuristic and the script heuristic fire
C39_Witness ==
    /\ InboundChecked
    /\ gate.text = <<SQL, SCRIPT>>
    /\ gate.first.blocked
    /\ ~gate.first.passed
    /\ gate.first.reason = "Script injection pattern detected in query"


InvalidPlan == pc = "plan" /\ pc' = "while"
ExecutionError ==
    pc = "exec" /\ pc' # pc /\ result' # NotStr /\ startswith(result', ERR)

\* C32: an invalid plan and an execution-error result each take exactly one
\* lifeline and lead back to the inner loop of the same step with the same
\* effective input; nothing else takes a lifeline; the inner loop is left
\* for the next step as failed exactly when lifelines_left is below 0
C32_OnlyFailuresConsumeLifelines ==
    [][/\ (InvalidPlan \/ ExecutionError)
             => /\ lifelines_left' = lifelines_left - 1
                /\ pc' = "while"
                /\ step' = step
                /\ CurrentInput' = CurrentInput
       /\ lifelines_left' < lifelines_left
             => (InvalidPlan \/ ExecutionError)
       /\ (pc = "while" /\ pc' = "for") <=> (pc = "while" /\ lifelines_left < 0)]_vars


\* C34: final_answer is assigned only in the transition that ends the run,
\* and once it holds an answer it keeps it
C34_FinalAnswerSetOnceAtTheEnd ==
    [][/\ final_answer' # final_answer => pc' = "returned"
       /\ final_answer # NoneText => final_answer' = final_answer]_vars

\* C35 as stated: lifelines_left stays within 0..max_lifelines, and every
\* outer step starts with lifelines_left = max_lifelines
C35_LifelinesNeverNegative ==
    /\ [](0 <= lifelines_left /\ lifelines_left <= max_lifelines)
    /\ [][(pc = "for" /\ pc' = "while") => lifelines_left' = max_lifelines]_vars

\* C35: lifelines_left stays within -1..max_lifelines; it is -1 only once
\* the last retry of a step has failed, when the inner loop is about to be
\* left or has been left; every outer step starts with
\* lifelines_left = max_lifelines
C35_LifelinesRange ==
    /\ [](-1 <= lifelines_left /\ lifelines_left <= max_lifelines)
    /\ [](lifelines_left = -1 => pc \in {"while", "for", "returned"})
    /\ [][(pc = "for" /\ pc' = "while") => lifelines_left' = max_lifelines]_vars

\* the second step has started with a full budget after the first one used
\* its own up
C35_Witness ==
    /\ step = 1
    /\ pc = "while"
    /\ max_lifelines = 1
    /\ lifelines_left = 1
    /\ plannerCalls = 2

\* an iteration that ran on the override ends without a return and without
\* a new FURTHER_PROCESSING_REQUIRED result, and another iteration follows
\* it, in this step or in the next one
OverrideIterationEnds ==
    /\ Truthy(user_input_override)
    /\ pc \in {"plan", "exec"}
    /\ pc' \in {"while", "for"}
    /\ further_processing_count' = further_processing_count
    /\ (lifelines_left' >= 0 \/ step' + 1 < max_steps)

\* C36: the override replaces the nominal input for one iteration; the
\* iteration that follows the one that ran on it has the nominal user input
\* as its effective input again
C36_OverrideUsedOnce ==
    [][OverrideIterationEnds => CurrentInput' = user_input]_vars

\* C38: whatever AgentLoop.run returns starts with "FINAL_ANSWER:"; the
\* caller therefore goes from the run to the indexing of the answer, never
\* back to the pre-check with a new input, and the loop is entered at most
\* once in a user turn
C38_RunReturnsFinalAnswerOnly ==
    /\ [](pc = "returned" => startswith(ret.result, FA))
    /\ [][mpc = "run" => mpc' \in {"run", "index"}]_vars
    /\ [](Cardinality({i \in DOMAIN events : events[i] = "loop"}) <= 1)

\* the run has returned an answer the loop formed from an unmarked result and
\* the turn has gone on to index it
C38_Witness ==
    /\ mpc = "index"
    /\ ret.via = "implicit"
    /\ ret.result = <<FA, sp, w>>
    /\ final_answer_text = <<w>>
    /\ Happened("loop")

\* C40: once a FURTHER_PROCESSING_REQUIRED result has set the override, an
\* iteration that selects a tool goes to the direct analysis; when the LLM
\* call of the analysis returns, the run returns in that iteration with a
\* "FINAL_ANSWER:" recorded under llm_direct_analysis and neither the planner
\* nor the sandbox is called; a second or later FURTHER_PROCESSING_REQUIRED
\* result of the sandbox comes only after a direct analysis that failed
C40_OverrideLeadsToDirectAnalysis ==
    [][/\ (Truthy(user_input_override) /\ pc = "while" /\ lifelines_left >= 0
                                       /\ selected_tools' = "nonempty" /\ pc' # pc)
             => pc' = "analysis"
       /\ (Truthy(user_input_override) /\ pc = "analysis" /\ llm' = "ok")
             => /\ pc' = "returned"
                /\ ret'.status = "done"
                /\ ret'.via = "llm_direct_analysis"
                /\ startswith(ret'.result, FA)
                /\ memory'.last.tool_name = "llm_direct_analysis"
                /\ plannerCalls' = plannerCalls
                /\ sandboxCalls' = sandboxCalls
       /\ (further_processing_count >= 1
              /\ further_processing_count' = further_processing_count + 1)
             => /\ llm = "raise"
                /\ llmCalls >= 1]_vars

\* the step after the first FURTHER_PROCESSING_REQUIRED result selected a
\* tool, the analysis answered and the run returned without a second plan
C40_Witness ==
    /\ pc = "returned"
    /\ user_input = <<w>>
    /\ Truthy(user_input_override)
    /\ further_processing_count = 1
    /\ selected_tools = "nonempty"
    /\ llm = "ok"
    /\ ret.via = "llm_direct_analysis"
    /\ plannerCalls = 1
    /\ sandboxCalls = 1

(***************************************************************************)
(* Lock-step of the metadata and the index                                 *)
(***************************************************************************)
\* C33: whenever the indexer is at rest, the record at each position of the
\* metadata carries that position as index_position and the index holds, at
\* the same position, the vector of that record's conversation (the zero
\* vector when its embedding failed)
C33_RecordsDescribeTheirVectors ==
    ipc = "ready"
       => \A i \in DOMAIN metadata :
             /\ metadata[i].index_position = i - 1
             /\ i <= ntotal(index)
             /\ index.vecs[i] \in {metadata[i].conv, 0}

============================================================================
